---- MODULE Spec2Model ----
(***************************************************************************)
(* Model of the hephaestus synchronization engine: the task pipeline       *)
(* (TaskService.Start / catchUpToNow / processDate), the employee pipeline *)
(* (Staff.Start / ProcessEmployee) and the repository statements they      *)
(* issue against the tables scraper_status, task_types, tasks,             *)
(* task_executors and employees; further RetryLogin, the session of the    *)
(* task pipeline, the goroutines of main that run the two services, and    *)
(* concurrent GetOrCreateTaskTypeID calls.                                  *)
(*                                                                         *)
(* Days are counted from the sentinel date 2024-01-01 (day 0).  Every      *)
(* database statement may fail: a cycle draws the index of the statement   *)
(* that fails ("fuel", 0 = none fails).                                    *)
(***************************************************************************)
EXTENDS Integers, Sequences, FiniteSets, TLC

\* ------------------------------------------------------------------ bounds
MaxDay == 2
MaxRows == 3
MaxPage == 2
MaxEmp == 2
MaxExec == 2
MaxCallers == 2
MaxPageRows == 3
MaxText == 4
MaxMarkup == 5

\* --------------------------------------------------------------- constants
SentinelDay == 0

\* const retries = 3 of RetryLogin
retries == 3

NoRow == [absent |-> TRUE]
NoCycle == [none |-> TRUE]

Days == 0..MaxDay

\* ------------------------------------------------------- input value sets
TaskIDs == {1, 2}
TypeNames == {"t1", "t2"}
ExecNames == {"A", "B", "C"}
EmpIDs == {1, 2, 3}

\* models.Task; Body stands for the columns that the INSERT and the UPDATE
\* of UpsertTask both write from the task (closing date, description,
\* address, customer name, customer login, comments).
Task(id, type, created, body, execs) ==
    [ID |-> id, Type |-> type, CreatedAt |-> created, Body |-> body, Executors |-> execs]

\* models.Employee
Employee(id, full, short, pos, email, phone) ==
    [ID |-> id, FullName |-> full, ShortName |-> short, Position |-> pos,
     Email |-> email, Phone |-> phone]

SeqsUpTo(S, n) == UNION {[1..k -> S] : k \in 0..n}

Range(f) == {f[i] : i \in DOMAIN f}

\* --------------------------------------------------------------- variables
VARIABLES
    today,          \* current day of the wall clock (time.Now), in UTC
    tz,             \* zone of the process and the days its calendar day is ahead
    cancelled,      \* ctx.Done() is closed
    status,         \* table scraper_status: rows in updated_at order
    task_types,     \* table task_types: names, type_id = position
    tasks,          \* table tasks: task_id -> row
    task_executors, \* table task_executors: set of <<task_id, executor_id>>
    employees,      \* table employees: id -> row
    tpc,            \* position of TaskService.Start
    tdate,          \* dateToParse of the processDate call in flight
    ttick,          \* ticks buffered in the task ticker's channel
    tInFlight,      \* number of processDate calls in flight
    lastCycle,      \* record of the last processDate call that returned
    done,           \* days for which a processDate call returned nil
    initCursor,     \* cursor date at the start of the history
    cu,             \* record of the current catchUpToNow call
    spc,            \* position of Staff.Start
    stick,          \* ticks buffered in the staff ticker's channel
    sInFlight,      \* number of ProcessEmployee calls in flight
    lastKnownHash,  \* Staff.lastKnownHash
    lastStaff,      \* record of the last ProcessEmployee call that returned
    call,           \* record of the last direct repository call
    session,        \* the session held by the task pipeline's cookie jar
    lastLogin,      \* record of the RetryLogin call that has just returned
    tret,           \* what TaskService.Start returned
    sret,           \* what Staff.Start returned
    mainErr,        \* main's variable err, assigned by both service goroutines
    stored,         \* goroutines that have assigned main's err
    srv,            \* position of StartMonitoringServer
    mpc,            \* position of main
    cookieJar,      \* the CookieJar of the HTTP client: mu and jar
    jarCalls,       \* concurrent SetCookies / Cookies calls: caller -> position
    race            \* concurrent GetOrCreateTaskTypeID calls: caller -> position

dbVars == <<status, task_types, tasks, task_executors, employees>>
taskVars == <<tpc, tdate, ttick, tInFlight, lastCycle, done, initCursor, cu, session,
              lastLogin, tret>>
staffVars == <<spc, stick, sInFlight, lastKnownHash, lastStaff, sret>>
mainVars == <<mainErr, stored, srv, mpc, cookieJar, jarCalls, race>>
vars == <<today, tz, cancelled, dbVars, taskVars, staffVars, call, mainVars>>

\* ------------------------------------------------------ statement threading
\* A repository call threads a record s: the tables, the fuel (index of the
\* statement that fails, 0 = none), the error returned so far, the tables
\* written (writes) and the calls made by the service (ops).
DB(st, tt, ts, te, fuel) ==
    [status |-> st, task_types |-> tt, tasks |-> ts, task_executors |-> te,
     fuel |-> fuel, stmts |-> 0, err |-> "none", writes |-> <<>>, ops |-> <<>>,
     ret |-> 0]

Ok(s) == s.err = "none"

\* db.Exec / db.QueryRow reaching the server: fails when the fuel is 1
Fails(s) == s.fuel = 1
Burn(s) == [s EXCEPT !.fuel = IF @ > 0 THEN @ - 1 ELSE 0, !.stmts = @ + 1]
Err(s, e) == [s EXCEPT !.err = e, !.fuel = 0]
Wrote(s, table) == [s EXCEPT !.writes = Append(@, table)]

TypeID(tt, name) == CHOOSE i \in 1..Len(tt) : tt[i] = name

\* the value v, computed once, given to the rest of the call
Then(v, Rest(_)) == Rest(v)

\* ------------------------------------------------------------ scraper_status
\* SELECT last_processed_date ... ORDER BY updated_at DESC LIMIT 1
GetLastProcessedDate(st) == IF st = <<>> THEN NoRow ELSE [date |-> st[Len(st)]]

\* GetLastDate: the sentinel when the table is empty
GetLastDate(st) ==
    IF GetLastProcessedDate(st) = NoRow THEN SentinelDay ELSE GetLastProcessedDate(st).date

\* a call of GetLastDate: dbFails is a failure of the query other than "no
\* rows"; read tells which of the three outcomes of the query it was
GetLastDateResult_NoSentinel(st, dbFails) ==
    IF dbFails THEN [err |-> "read", date |-> 0, read |-> "failed"]
    ELSE IF GetLastProcessedDate(st) = NoRow
    THEN [err |-> "read", date |-> 0, read |-> "empty"]
    ELSE [err |-> "none", date |-> GetLastProcessedDate(st).date, read |-> "row"]

GetLastDateResult(st, dbFails) ==
    IF dbFails THEN [err |-> "read", date |-> 0, read |-> "failed"]
    ELSE IF GetLastProcessedDate(st) = NoRow
    THEN [err |-> "none", date |-> SentinelDay, read |-> "empty"]
    ELSE [err |-> "none", date |-> GetLastProcessedDate(st).date, read |-> "row"]

\* INSERT INTO scraper_status (last_processed_date) VALUES ($1)
\* ON CONFLICT (id) ...: id is SERIAL and not given, so a row is added.
SaveProcessedDate(s, date) ==
    IF ~Ok(s) THEN s
    ELSE IF Fails(s) THEN Err(s, "cursor")
    ELSE [Burn(s) EXCEPT !.status = Append(@, date)]

\* ---------------------------------------------------------------- task_types
GetOrCreateTaskTypeID_AlwaysInsert(s, typeName) ==
    IF ~Ok(s) THEN s
    ELSE IF Fails(s) THEN Err(s, "type")
    ELSE Then(Wrote(Burn(s), "task_types"), LAMBDA s1 :
         Then(IF typeName \in Range(s1.task_types) THEN s1
              ELSE [s1 EXCEPT !.task_types = Append(@, typeName)], LAMBDA s2 :
         [s2 EXCEPT !.ret = TypeID(s2.task_types, typeName)]))

GetOrCreateTaskTypeID(s, typeName) ==
    IF ~Ok(s) THEN s
    ELSE IF Fails(s) THEN Err(s, "type")                       \* first SELECT
    ELSE Then(Burn(s), LAMBDA s1 :
         IF typeName \in Range(s1.task_types)
         THEN [s1 EXCEPT !.ret = TypeID(s1.task_types, typeName)]
         ELSE IF Fails(s1) THEN Err(s1, "type")                \* INSERT
         ELSE Then([Wrote(Burn(s1), "task_types")
                       EXCEPT !.task_types = Append(@, typeName)], LAMBDA s2 :
              IF Fails(s2) THEN Err(s2, "type")                \* second SELECT
              ELSE [Burn(s2) EXCEPT !.ret = TypeID(s2.task_types, typeName)]))

\* --------------------------------------------------------------------- tasks
TaskRow(typeID, created, body) ==
    [task_type_id |-> typeID, creation_date |-> created, body |-> body]

UpsertTask_PartialUpdate(s, task, typeID) ==
    IF ~Ok(s) THEN s
    ELSE IF Fails(s) THEN Err(s, "upsert")
    ELSE Then(Burn(s), LAMBDA s1 :
         IF Fails(s1) THEN Err(s1, "upsert")
         ELSE IF s1.tasks[task.ID] # NoRow
         THEN [Wrote(Burn(s1), "tasks") EXCEPT
                  !.tasks[task.ID] = TaskRow(typeID, @.creation_date, @.body)]
         ELSE IF task.Type \notin Range(s1.task_types)
         THEN Err(s1, "upsert")
         ELSE [Wrote(Burn(s1), "tasks") EXCEPT
                  !.tasks[task.ID] =
                      TaskRow(TypeID(s1.task_types, task.Type), task.CreatedAt, task.Body)])

\* typeID is the type_id of task.Type: SaveTaskData passes what
\* GetOrCreateTaskTypeID(task.Type) returned
UpsertTask(s, task, typeID) ==
    IF ~Ok(s) THEN s
    ELSE IF Fails(s) THEN Err(s, "upsert")                     \* SELECT EXISTS
    ELSE Then(Burn(s), LAMBDA s1 :
         IF Fails(s1) THEN Err(s1, "upsert")                   \* UPDATE / INSERT
         ELSE IF s1.tasks[task.ID] # NoRow
         THEN [Wrote(Burn(s1), "tasks") EXCEPT
                  !.tasks[task.ID] = TaskRow(typeID, @.creation_date, task.Body)]
         ELSE IF task.Type \notin Range(s1.task_types)
         THEN Err(s1, "upsert")                                \* task_type_id NULL
         ELSE [Wrote(Burn(s1), "tasks") EXCEPT
                  !.tasks[task.ID] =
                      TaskRow(TypeID(s1.task_types, task.Type), task.CreatedAt, task.Body)])

\* ------------------------------------------------------------ task_executors
\* (SELECT id FROM employees WHERE shortname = $2)
ExecutorIDs(emps, name) ==
    {id \in DOMAIN emps : emps[id] # NoRow /\ emps[id].ShortName = name}

\* one INSERT INTO task_executors: the subquery must give exactly one id
\* (none: NOT NULL violation, several: subquery error), the task must exist
\* (foreign key) and the link must be new (primary key).
InsertExecutor(s, emps, taskID, name) ==
    IF ~Ok(s) THEN s
    ELSE IF Fails(s) THEN Err(s, "executors")
    ELSE Then(ExecutorIDs(emps, name), LAMBDA ids :
         IF Cardinality(ids) # 1 \/ s.tasks[taskID] = NoRow THEN Err(s, "executors")
         ELSE Then(<<taskID, CHOOSE id \in ids : TRUE>>, LAMBDA link :
              IF link \in s.task_executors THEN Err(s, "executors")
              ELSE [Wrote(Burn(s), "task_executors") EXCEPT
                       !.task_executors = @ \cup {link}]))

RECURSIVE InsertExecutors(_, _, _, _, _)
InsertExecutors(s, emps, taskID, executors, i) ==
    IF i > Len(executors) \/ ~Ok(s) THEN s
    ELSE InsertExecutors(InsertExecutor(s, emps, taskID, executors[i]),
                         emps, taskID, executors, i + 1)

\* DELETE FROM task_executors WHERE task_id = $1
DeleteExecutors(s, taskID) ==
    IF ~Ok(s) THEN s
    ELSE IF Fails(s) THEN Err(s, "executors")
    ELSE [Wrote(Burn(s), "task_executors") EXCEPT
             !.task_executors = {l \in @ : l[1] # taskID}]

UpdateTaskExecutors_NoDelete(s, emps, taskID, executors) ==
    InsertExecutors(s, emps, taskID,
                    SelectSeq(executors,
                              LAMBDA n : \A id \in ExecutorIDs(emps, n) :
                                            <<taskID, id>> \notin s.task_executors),
                    1)

UpdateTaskExecutors(s, emps, taskID, executors) ==
    InsertExecutors(DeleteExecutors(s, taskID), emps, taskID, executors, 1)

SaveTaskData_ExecutorsFirst(s, emps, task) ==
    Then(GetOrCreateTaskTypeID(s, task.Type), LAMBDA s1 :
    UpsertTask(UpdateTaskExecutors(s1, emps, task.ID, task.Executors), task, s1.ret))

\* 1. type resolution, 2. task upsert, 3. executor replacement; a step that
\* finds an error returned passes it on without a statement
SaveTaskData(s, emps, task) ==
    Then(GetOrCreateTaskTypeID(s, task.Type), LAMBDA s1 :
    UpdateTaskExecutors(UpsertTask(s1, task, s1.ret), emps, task.ID, task.Executors))

\* --------------------------------------------------------------- processDate
\* the loop over the page: SaveTaskData for each task, stop at the first error
RECURSIVE SaveTasks_Continue(_, _, _, _)
SaveTasks_Continue(s, emps, page, i) ==
    IF i > Len(page) THEN s
    ELSE Then(SaveTaskData(s, emps, page[i]), LAMBDA r :
         SaveTasks_Continue([r EXCEPT !.ops = Append(@, <<"save", i, Ok(r)>>),
                                      !.err = "none"],
                            emps, page, i + 1))

RECURSIVE SaveTasks(_, _, _, _)
SaveTasks(s, emps, page, i) ==
    IF i > Len(page) \/ ~Ok(s) THEN s
    ELSE Then(SaveTaskData(s, emps, page[i]), LAMBDA r :
         SaveTasks([r EXCEPT !.ops = Append(@, <<"save", i, Ok(r)>>),
                             !.err = IF Ok(r) THEN "none" ELSE "save"],
                   emps, page, i + 1))

NextDate_Same(dateToParse) == dateToParse

\* dateToParse.AddDate(0, 0, 1)
NextDate(dateToParse) == dateToParse + 1

\* fetch is the result of ParseTasksByDate: an error, or the page of tasks
processDate(s, emps, dateToParse, fetch) ==
    IF ~fetch.ok THEN Err(s, "fetch")
    ELSE Then(SaveTasks(s, emps, fetch.tasks, 1), LAMBDA saved :
         IF ~Ok(saved) THEN saved
         ELSE Then(SaveProcessedDate(saved, NextDate(dateToParse)), LAMBDA w :
              [w EXCEPT !.ops = IF Ok(w) THEN Append(@, <<"cursor", NextDate(dateToParse)>>)
                                ELSE @]))


FetchError == [ok |-> FALSE, tasks |-> <<>>]
Fetched(page) == [ok |-> TRUE, tasks |-> page]

\* the session of the cookie jar: "none" before the login, "valid" after it,
\* "expired" once the server has dropped it, "rejected" once a request of the
\* pipeline has been refused for it
Sessions == {"none", "valid", "expired", "rejected"}

\* what a request can return: with a session that is not valid it is refused
Offered(sess, fetches) == IF sess = "valid" THEN fetches ELSE {FetchError}

\* the session after a request was answered
Answered(sess) == IF sess = "valid" THEN "valid" ELSE "rejected"

\* the zone of the process (time.Local) and off, the days by which its
\* calendar day is ahead of the UTC day at this moment: east of UTC the local
\* day is one ahead between local midnight and UTC midnight, west of UTC it
\* is one behind between UTC midnight and local midnight
ZoneClock(zone, off) == [zone |-> zone, off |-> off]

UTCClock == ZoneClock("utc", 0)

ZoneClocks ==
    {UTCClock, ZoneClock("east", 0), ZoneClock("east", 1),
     ZoneClock("west", -1), ZoneClock("west", 0)}

\* dateToParse.Year(), Month(), Day() of time.Now(): the local calendar day
LocalDay(utcDay, off) == utcDay + off

\* ----------------------------------------------------------- task pipeline
\* tasks of the scraped pages: task 1 in two versions
PipelineTasks ==
    { Task(1, "t1", 0, "b1", <<"A", "B">>),
      Task(1, "t2", 1, "b2", <<"B">>) }

Fetches(taskSet) == {FetchError} \cup {Fetched(p) : p \in SeqsUpTo(taskSet, MaxPage)}

\* pages of the pipeline as a whole: one known task, or none
EngineFetches == {FetchError, Fetched(<<>>), Fetched(<<Task(1, "t1", 0, "b1", <<"A">>)>>)}

\* results of ParseTaskTypes
TypeFetches == {FetchError, Fetched(<<"t1">>)}

\* record of a catchUpToNow call: d the cursor and T the day at its start, log
\* the dates of its processDate calls, read the outcome of its latest cursor
\* query; a call during which midnight passed is not followed further
NoCatchUp == [clean |-> FALSE, d |-> 0, T |-> 0, log |-> <<>>, read |-> "none"]

\* lastDateTruncated.After(todayTruncated)
CaughtUp_NotBefore(lastDate, now) == lastDate >= now

CaughtUp(lastDate, now) == lastDate > now

\* the maintenance select can take a tick: Start is blocked in the select
TaskTickReady_AnyTime == tpc \in {"maint", "mt_cycle"} /\ ttick = 1

TaskTickReady == tpc = "maint" /\ ttick = 1

InCatchUp == tpc \in {"catchup", "cu_cycle"}

\* results of one auth.Login call: nil, ErrLogin (status other than 200), an
\* error of client.Do (transport error, or the error of a cancelled ctx)
LoginResults == {"nil", "ErrLogin", "transport", "ctx"}

\* what the Login calls of one RetryLogin call would return, one per attempt;
\* with ctx cancelled client.Do fails at once with the error of ctx
LoginOutcomes(isCancelled) ==
    IF isCancelled THEN {[i \in 1..retries |-> "ctx"]}
    ELSE {o \in [1..retries -> LoginResults \ {"ctx"}] :
             \A i \in 1..(retries - 1) : o[i] = "nil" => o[i + 1] = "nil"}

\* errors.New("failed to login after multiple retries")
finalError == "failed to login after multiple retries"

\* the loop of RetryLogin from attempt index on: calls are the results of
\* the Login calls made, sleeps the number of time.Sleep(retryTimeout) calls,
\* ret the value returned, wraps the error that ret wraps (finalError is made
\* by errors.New and wraps nothing)
RECURSIVE RetryLoginFrom_NoEarlyReturn(_, _, _)
RetryLoginFrom_NoEarlyReturn(outcomes, index, r) ==
    IF index > retries
    THEN [r EXCEPT !.ret = IF "nil" \in Range(r.calls) THEN "nil" ELSE finalError]
    ELSE RetryLoginFrom_NoEarlyReturn(outcomes, index + 1,
             [r EXCEPT !.calls = Append(@, outcomes[index]),
                       !.sleeps = IF outcomes[index] = "nil" THEN @ ELSE @ + 1])

RECURSIVE RetryLoginFrom(_, _, _)
RetryLoginFrom(outcomes, index, r) ==
    IF index > retries THEN [r EXCEPT !.ret = finalError]
    ELSE IF outcomes[index] = "nil"
    THEN [r EXCEPT !.calls = Append(@, "nil"), !.ret = "nil"]
    ELSE RetryLoginFrom(outcomes, index + 1,
             [r EXCEPT !.calls = Append(@, outcomes[index]), !.sleeps = @ + 1])

RetryLogin(outcomes) ==
    RetryLoginFrom(outcomes, 1,
                   [outcomes |-> outcomes, calls |-> <<>>, sleeps |-> 0, ret |-> "nil",
                    wraps |-> "none"])

\* what Start has returned: nothing yet, nil, or an error and its cause
Running == [returned |-> FALSE, err |-> FALSE, cause |-> "none"]
ReturnedNil == [returned |-> TRUE, err |-> FALSE, cause |-> "none"]
ReturnedError(cause) == [returned |-> TRUE, err |-> TRUE, cause |-> cause]

TaskLogin_IgnoreFailure ==
    /\ tpc = "login"
    /\ \E outcomes \in LoginOutcomes(cancelled) :
       \E r \in {RetryLogin(outcomes)} :
          /\ lastLogin' = r
          /\ session' = IF r.ret = "nil" THEN "valid" ELSE session
          /\ tpc' = "types"
          /\ tret' = IF r.ret = "nil" THEN tret ELSE ReturnedError("login")
    /\ UNCHANGED <<today, tz, cancelled, dbVars, tdate, ttick, tInFlight, lastCycle, done,
                   initCursor, cu, staffVars, call, mainVars>>

\* 1. Login: the RetryLogin call of Start
TaskLogin ==
    /\ tpc = "login"
    /\ \E outcomes \in LoginOutcomes(cancelled) :
       \E r \in {RetryLogin(outcomes)} :
          /\ lastLogin' = r
          /\ session' = IF r.ret = "nil" THEN "valid" ELSE session
          /\ tpc' = IF r.ret = "nil" THEN "types" ELSE "failed"
          /\ tret' = IF r.ret = "nil" THEN tret ELSE ReturnedError("login")
    /\ UNCHANGED <<today, tz, cancelled, dbVars, tdate, ttick, tInFlight, lastCycle, done,
                   initCursor, cu, staffVars, call, mainVars>>

RECURSIVE CreateTypes(_, _, _)
CreateTypes(s, names, i) ==
    IF i > Len(names) \/ ~Ok(s) THEN s
    ELSE CreateTypes(GetOrCreateTaskTypeID(s, names[i]), names, i + 1)

\* 2. GetTaskTypes, then entry of catchUpToNow
TaskGetTaskTypes ==
    /\ tpc = "types"
    /\ \E names \in Offered(session, TypeFetches) :
       \E fuel \in 0..CreateTypes(DB(status, task_types, tasks, task_executors, 0),
                                   names.tasks, 1).stmts :
       \E r \in {IF ~names.ok
                  THEN Err(DB(status, task_types, tasks, task_executors, 0), "fetch")
                  ELSE CreateTypes(DB(status, task_types, tasks, task_executors, fuel),
                                   names.tasks, 1)} :
              /\ task_types' = r.task_types
              /\ tpc' = IF Ok(r) THEN "catchup" ELSE "failed"
              /\ tret' = IF Ok(r) THEN tret ELSE ReturnedError("types")
              /\ cu' = IF Ok(r)
                       THEN [clean |-> TRUE, d |-> GetLastDate(status), T |-> today,
                             log |-> <<>>, read |-> "none"]
                       ELSE NoCatchUp
    /\ session' = Answered(session)
    /\ lastLogin' = NoCycle
    /\ UNCHANGED <<today, tz, cancelled, status, tasks, task_executors, employees, tdate,
                   ttick, tInFlight, lastCycle, done, initCursor, staffVars, call,
                   mainVars>>

\* one pass through the head of the loop of catchUpToNow
CatchUp ==
    /\ tpc = "catchup"
    /\ \E dbFails \in BOOLEAN :
       \E rd \in {GetLastDateResult(status, dbFails)} :
          IF rd.err # "none" THEN
              /\ tpc' = "failed"
              /\ tret' = ReturnedError("cursor")
              /\ cu' = [cu EXCEPT !.read = rd.read]
              /\ UNCHANGED <<tdate, ttick, tInFlight>>
          ELSE IF CaughtUp(rd.date, today) THEN
              /\ tpc' = "maint"                     \* return nil; time.NewTicker
              /\ ttick' = 0
              /\ cu' = [cu EXCEPT !.read = rd.read]
              /\ UNCHANGED <<tdate, tInFlight, tret>>
          ELSE IF cancelled THEN
              /\ tpc' = "failed"                    \* return ctx.Err() wrapped
              /\ tret' = ReturnedError("cancelled")
              /\ cu' = [cu EXCEPT !.read = rd.read]
              /\ UNCHANGED <<tdate, ttick, tInFlight>>
          ELSE
              /\ Len(status) < MaxRows
              /\ tpc' = "cu_cycle"                  \* processDate(lastDate)
              /\ tdate' = rd.date
              /\ tInFlight' = tInFlight + 1
              /\ cu' = [cu EXCEPT !.read = rd.read,
                                  !.log = IF cu.clean THEN Append(@, rd.date) ELSE @]
              /\ UNCHANGED <<ttick, tret>>
    /\ UNCHANGED <<today, tz, cancelled, dbVars, lastCycle, done, initCursor, staffVars, call,
                   session, lastLogin, mainVars>>

\* case <-ticker.C: processDate(time.Now()); processDate takes the calendar
\* day of time.Now() in the zone of the process
MaintTick ==
    /\ TaskTickReady
    /\ Len(status) < MaxRows
    /\ ttick' = 0
    /\ tpc' = "mt_cycle"
    /\ tdate' = LocalDay(today, tz.off)
    /\ tInFlight' = tInFlight + 1
    /\ cu' = NoCatchUp
    /\ UNCHANGED <<today, tz, cancelled, dbVars, lastCycle, done, initCursor, staffVars, call,
                   session, lastLogin, tret, mainVars>>

MaintCancel_Error ==
    /\ tpc = "maint"
    /\ cancelled
    /\ tpc' = "failed"
    /\ tret' = ReturnedError("cancelled")
    /\ UNCHANGED <<today, tz, cancelled, dbVars, tdate, ttick, tInFlight, lastCycle, done,
                   initCursor, cu, staffVars, call,
                   session, lastLogin, mainVars>>

\* case <-ctx.Done(): return nil
MaintCancel ==
    /\ tpc = "maint"
    /\ cancelled
    /\ tpc' = "exited"
    /\ tret' = ReturnedNil
    /\ UNCHANGED <<today, tz, cancelled, dbVars, tdate, ttick, tInFlight, lastCycle, done,
                   initCursor, cu, staffVars, call,
                   session, lastLogin, mainVars>>

ProcessDateReturn_ErrorEndsLoop(fetches) ==
    /\ tpc \in {"cu_cycle", "mt_cycle"}
    /\ \E fetch \in Offered(session, fetches) :
       \E fuel \in 0..processDate(DB(status, task_types, tasks, task_executors, 0),
                                   employees, tdate, fetch).stmts :
       \E r \in {processDate(DB(status, task_types, tasks, task_executors, fuel),
                              employees, tdate, fetch)} :
              /\ status' = r.status
              /\ task_types' = r.task_types
              /\ tasks' = r.tasks
              /\ task_executors' = r.task_executors
              /\ lastCycle' = [date |-> tdate, phase |-> tpc, fetch |-> fetch,
                               err |-> r.err, ops |-> r.ops, writes |-> r.writes,
                               cursorBefore |-> GetLastDate(status),
                               repeat |-> /\ lastCycle # NoCycle
                                          /\ lastCycle.err = "none"
                                          /\ lastCycle.date = tdate
                                          /\ lastCycle.fetch = fetch]
              /\ done' = IF Ok(r) THEN done \cup {tdate} ELSE done
              /\ tpc' = IF ~Ok(r) THEN "failed"
                        ELSE IF tpc = "mt_cycle" THEN "maint" ELSE "catchup"
              /\ tret' = IF Ok(r) THEN tret ELSE ReturnedError("cycle")
    /\ session' = Answered(session)
    /\ tInFlight' = tInFlight - 1
    /\ tdate' = 0
    /\ UNCHANGED <<today, tz, cancelled, employees, ttick, initCursor, cu, staffVars, call,
                   lastLogin, mainVars>>

\* the processDate call in flight runs and returns to its caller
ProcessDateReturn(fetches) ==
    /\ tpc \in {"cu_cycle", "mt_cycle"}
    /\ \E fetch \in Offered(session, fetches) :
       \E fuel \in 0..processDate(DB(status, task_types, tasks, task_executors, 0),
                                   employees, tdate, fetch).stmts :
       \E r \in {processDate(DB(status, task_types, tasks, task_executors, fuel),
                              employees, tdate, fetch)} :
              /\ status' = r.status
              /\ task_types' = r.task_types
              /\ tasks' = r.tasks
              /\ task_executors' = r.task_executors
              /\ lastCycle' = [date |-> tdate, phase |-> tpc, fetch |-> fetch,
                               err |-> r.err, ops |-> r.ops, writes |-> r.writes,
                               cursorBefore |-> GetLastDate(status),
                               repeat |-> /\ lastCycle # NoCycle
                                          /\ lastCycle.err = "none"
                                          /\ lastCycle.date = tdate
                                          /\ lastCycle.fetch = fetch]
              /\ done' = IF Ok(r) THEN done \cup {tdate} ELSE done
              /\ tpc' = IF tpc = "mt_cycle" THEN "maint"
                        ELSE IF Ok(r) THEN "catchup" ELSE "failed"
              /\ tret' = IF tpc = "mt_cycle" \/ Ok(r) THEN tret ELSE ReturnedError("cycle")
    /\ session' = Answered(session)
    /\ tInFlight' = tInFlight - 1
    /\ tdate' = 0
    /\ UNCHANGED <<today, tz, cancelled, employees, ttick, initCursor, cu, staffVars, call,
                   lastLogin, mainVars>>

\* the interval of the task ticker elapses: the channel holds one tick
TaskTickElapse ==
    /\ tpc \in {"maint", "mt_cycle"}
    /\ ttick = 0
    /\ ttick' = 1
    /\ UNCHANGED <<today, tz, cancelled, dbVars, tpc, tdate, tInFlight, lastCycle, done,
                   initCursor, cu, staffVars, call,
                   session, lastLogin, tret, mainVars>>

\* --------------------------------------------------------- employees table
\* A ProcessEmployee call threads a record es: the employees table, the fuel,
\* the error returned, lastKnownHash, the repository calls made (calls) and,
\* for every employee reached, the row stored for its ID when it was looked
\* up, whether the lookup query itself succeeded, and the action taken
\* (decisions).
ES(emps, hash, fuel) ==
    [employees |-> emps, hash |-> hash, fuel |-> fuel, stmts |-> 0, err |-> "none",
     calls |-> <<>>, decisions |-> <<>>]

Called(es, name, id) == [es EXCEPT !.calls = Append(@, <<name, id>>)]

Decided(es, e, existing, lookupOK, action) ==
    [es EXCEPT !.decisions = Append(@, [e |-> e, existing |-> existing,
                                        lookupOK |-> lookupOK, action |-> action])]

\* employees.email is UNIQUE: another row already has this email
EmailTaken(emps, id, email) ==
    \E other \in DOMAIN emps : other # id /\ emps[other] # NoRow /\ emps[other].Email = email

\* INSERT INTO employees ... ON CONFLICT (id) DO NOTHING
SaveEmployee(es, e) ==
    IF Fails(es) THEN Err(Called(es, "SaveEmployee", e.ID), "save")
    ELSE IF es.employees[e.ID] # NoRow THEN Called(Burn(es), "SaveEmployee", e.ID)
    ELSE IF EmailTaken(es.employees, e.ID, e.Email)
    THEN Err(Called(es, "SaveEmployee", e.ID), "save")
    ELSE [Called(Burn(es), "SaveEmployee", e.ID) EXCEPT !.employees[e.ID] = e]

\* UPDATE employees SET fullname, shortname, position, email, phone WHERE id
UpdateEmployee(es, e) ==
    IF Fails(es) THEN Err(Called(es, "UpdateEmployee", e.ID), "update")
    ELSE IF es.employees[e.ID] = NoRow THEN Called(Burn(es), "UpdateEmployee", e.ID)
    ELSE IF EmailTaken(es.employees, e.ID, e.Email)
    THEN Err(Called(es, "UpdateEmployee", e.ID), "update")
    ELSE [Called(Burn(es), "UpdateEmployee", e.ID) EXCEPT !.employees[e.ID] = e]

\* GetEmployeeByID: the row, NoRow when there is none; ret.ok is FALSE when
\* the query fails
GetEmployeeByID(es, id) ==
    IF Fails(es) THEN [ok |-> FALSE, row |-> NoRow]
    ELSE [ok |-> TRUE, row |-> es.employees[id]]

\* IsEmployeeExists: every error of GetEmployeeByID counts as "not there"
IsEmployeeExists(es, id) ==
    GetEmployeeByID(es, id).ok /\ GetEmployeeByID(es, id).row # NoRow

\* the state after the GetEmployeeByID statement, failed or not
Looked(es, id) ==
    Called(IF Fails(es) THEN [es EXCEPT !.fuel = 0] ELSE Burn(es), "GetEmployeeByID", id)

InvalidEmails == {"", "bad"}
RandomEmails == {"r1", "r2"}

isValidEmail(email) == email \notin InvalidEmails

\* fixInvalidEmail: an empty or invalid email is replaced by a random one;
\* rnd[i] is what randomail.GenerateRandomEmail gives for the i-th employee
fixInvalidEmail(emps, rnd) ==
    [i \in 1..Len(emps) |->
        IF isValidEmail(emps[i].Email) THEN emps[i] ELSE [emps[i] EXCEPT !.Email = rnd[i]]]

\* existedEmployee == employee
SameEmployee(existing, e) == existing = e

\* the loop of ProcessEmployee over the fixed employees
RECURSIVE Reconcile(_, _, _)
Reconcile(es, fixed, i) ==
    IF i > Len(fixed) \/ ~Ok(es) THEN es
    ELSE Then(fixed[i], LAMBDA e :
         Then(IsEmployeeExists(es, e.ID), LAMBDA existed :
         Then(GetEmployeeByID(es, e.ID).ok, LAMBDA lookupOK :
         Then(Looked(es, e.ID), LAMBDA es1 :
         IF existed /\ SameEmployee(es.employees[e.ID], e)
         THEN Reconcile(Decided(es1, e, es.employees[e.ID], lookupOK, "skip"), fixed, i + 1)
         ELSE IF existed
         THEN Reconcile(Decided(UpdateEmployee(es1, e), e, es.employees[e.ID], lookupOK,
                                "update"), fixed, i + 1)
         ELSE Reconcile(Decided(SaveEmployee(es1, e), e, es.employees[e.ID], lookupOK,
                                "save"), fixed, i + 1)))))

\* the fetch decides alone: an empty list is taken as "hashes match"
HashesMatch(es, resp) == Len(resp.Employees) = 0

ProcessEmployee_Prune(es, resp, rnd) ==
    IF ~resp.ok THEN Err(es, "fetch")
    ELSE IF HashesMatch(es, resp) THEN [es EXCEPT !.hash = resp.NewHash]
    ELSE Then(Reconcile(es, fixInvalidEmail(resp.Employees, rnd), 1), LAMBDA r :
         IF Ok(r)
         THEN [r EXCEPT !.hash = resp.NewHash,
                        !.employees = [id \in DOMAIN @ |->
                            IF \E i \in 1..Len(resp.Employees) : resp.Employees[i].ID = id
                            THEN @[id] ELSE NoRow]]
         ELSE r)

\* resp is the result of hermesClient.GetEmployees(KnownHash: lastKnownHash)
ProcessEmployee(es, resp, rnd) ==
    IF ~resp.ok THEN Err(es, "fetch")
    ELSE IF HashesMatch(es, resp) THEN [es EXCEPT !.hash = resp.NewHash]
    ELSE Then(Reconcile(es, fixInvalidEmail(resp.Employees, rnd), 1), LAMBDA r :
         IF Ok(r) THEN [r EXCEPT !.hash = resp.NewHash] ELSE r)

\* ------------------------------------------------------- employee pipeline
Hashes == {"h1", "h2"}

\* employees of the responses: person 1 in three versions (one without
\* email), person 2 with the email of person 1
StaffEmployees ==
    { Employee(1, "n1", "A", "p", "e1", "ph"),
      Employee(1, "n2", "A", "p", "e1", "ph"),
      Employee(1, "n1", "A", "p", "", "ph"),
      Employee(2, "n1", "B", "p", "e1", "ph") }

NoResponse == [ok |-> FALSE, NewHash |-> "", Employees |-> <<>>]

Responses(empSet) ==
    {NoResponse} \cup
    {[ok |-> TRUE, NewHash |-> h, Employees |-> l] :
        h \in Hashes, l \in SeqsUpTo(empSet, MaxEmp)}

\* responses of the pipeline as a whole: nothing new, or one employee
EngineResponses ==
    { NoResponse,
      [ok |-> TRUE, NewHash |-> "h1", Employees |-> <<>>],
      [ok |-> TRUE, NewHash |-> "h1", Employees |-> <<Employee(1, "n1", "A", "p", "e1", "ph")>>] }

\* the random emails drawn for a response
Draws(resp) ==
    {rnd \in [1..Len(resp.Employees) -> RandomEmails] :
        \A i \in 1..Len(resp.Employees) :
            isValidEmail(resp.Employees[i].Email) => rnd[i] = "r1"}

\* the maintenance select can take a tick: Start is blocked in the select
StaffTickReady == spc = "maint" /\ stick = 1

\* 1. the initial ProcessEmployee call of Start
StaffStart ==
    /\ spc = "start"
    /\ spc' = "init_cycle"
    /\ sInFlight' = sInFlight + 1
    /\ lastStaff' = NoCycle
    /\ UNCHANGED <<today, tz, cancelled, dbVars, taskVars, stick, lastKnownHash, call,
                   sret, mainVars>>

\* case <-ticker.C: ProcessEmployee
StaffTick ==
    /\ StaffTickReady
    /\ stick' = 0
    /\ spc' = "mt_cycle"
    /\ sInFlight' = sInFlight + 1
    /\ lastStaff' = NoCycle
    /\ UNCHANGED <<today, tz, cancelled, dbVars, taskVars, lastKnownHash, call,
                   sret, mainVars>>

StaffCancel_KeepsTicking ==
    /\ spc = "maint"
    /\ cancelled
    /\ stick = 1
    /\ stick' = 0
    /\ UNCHANGED <<today, tz, cancelled, dbVars, taskVars, spc, sInFlight, lastKnownHash,
                   lastStaff, sret, call, mainVars>>

\* case <-ctx.Done(): return nil
StaffCancel ==
    /\ spc = "maint"
    /\ cancelled
    /\ spc' = "exited"
    /\ sret' = ReturnedNil
    /\ UNCHANGED <<today, tz, cancelled, dbVars, taskVars, stick, sInFlight, lastKnownHash,
                   lastStaff, call, mainVars>>

ProcessEmployeeReturn_HashAlways(responses) ==
    /\ spc \in {"init_cycle", "mt_cycle"}
    /\ \E resp \in responses :
       \E rnd \in Draws(resp) :
       \E fuel \in 0..ProcessEmployee(ES(employees, lastKnownHash, 0), resp, rnd).stmts :
       \E r \in {ProcessEmployee(ES(employees, lastKnownHash, fuel), resp, rnd)} :
          /\ employees' = r.employees
          /\ lastKnownHash' = resp.NewHash
          /\ lastStaff' = [resp |-> resp, hashBefore |-> lastKnownHash, err |-> r.err,
                           calls |-> r.calls, decisions |-> r.decisions,
                           dbFailed |-> fuel > 0]
          /\ spc' = IF spc = "mt_cycle" \/ Ok(r) THEN "maint" ELSE "failed"
          /\ sret' = IF spc = "mt_cycle" \/ Ok(r) THEN sret ELSE ReturnedError("cycle")
          /\ stick' = IF spc = "init_cycle" THEN 0 ELSE stick
    /\ sInFlight' = sInFlight - 1
    /\ UNCHANGED <<today, tz, cancelled, status, task_types, tasks, task_executors, taskVars,
                   call, mainVars>>

\* the ProcessEmployee call in flight runs and returns to Start
ProcessEmployeeReturn(responses) ==
    /\ spc \in {"init_cycle", "mt_cycle"}
    /\ \E resp \in responses :
       \E rnd \in Draws(resp) :
       \E fuel \in 0..ProcessEmployee(ES(employees, lastKnownHash, 0), resp, rnd).stmts :
       \E r \in {ProcessEmployee(ES(employees, lastKnownHash, fuel), resp, rnd)} :
          /\ employees' = r.employees
          /\ lastKnownHash' = r.hash
          /\ lastStaff' = [resp |-> resp, hashBefore |-> lastKnownHash, err |-> r.err,
                           calls |-> r.calls, decisions |-> r.decisions,
                           dbFailed |-> fuel > 0]
          /\ spc' = IF spc = "mt_cycle" \/ Ok(r) THEN "maint" ELSE "failed"
          /\ sret' = IF spc = "mt_cycle" \/ Ok(r) THEN sret ELSE ReturnedError("cycle")
          /\ stick' = IF spc = "init_cycle" THEN 0 ELSE stick
    /\ sInFlight' = sInFlight - 1
    /\ UNCHANGED <<today, tz, cancelled, status, task_types, tasks, task_executors, taskVars,
                   call, mainVars>>

\* the interval of the staff ticker elapses: the channel holds one tick
StaffTickElapse ==
    /\ spc \in {"maint", "mt_cycle"}
    /\ stick = 0
    /\ stick' = 1
    /\ UNCHANGED <<today, tz, cancelled, dbVars, taskVars, spc, sInFlight, lastKnownHash,
                   lastStaff, call,
                   sret, mainVars>>

\* ------------------------------------------------------------- environment
\* UTC midnight passes; in a zone east of UTC local midnight has passed
\* before it
ClockAdvance ==
    /\ today < MaxDay
    /\ tz.zone = "east" => tz.off = 1
    /\ tz.zone = "west" => tz.off = 0
    /\ today' = today + 1
    /\ tz' = [tz EXCEPT !.off = IF tz.zone = "west" THEN -1 ELSE 0]
    /\ cu' = IF InCatchUp THEN NoCatchUp ELSE cu
    /\ UNCHANGED <<cancelled, dbVars, tpc, tdate, ttick, tInFlight, lastCycle, done,
                   initCursor, staffVars, call,
                   session, lastLogin, tret, mainVars>>

\* midnight passes in the zone of the process
LocalMidnight ==
    /\ \/ tz.zone = "east" /\ tz.off = 0
       \/ tz.zone = "west" /\ tz.off = -1
    /\ tz' = [tz EXCEPT !.off = @ + 1]
    /\ UNCHANGED <<today, cancelled, dbVars, taskVars, staffVars, call, mainVars>>

\* the server drops the session of the task pipeline
SessionExpire ==
    /\ session = "valid"
    /\ tpc \in {"catchup", "maint"}
    /\ session' = "expired"
    /\ UNCHANGED <<today, tz, cancelled, dbVars, tpc, tdate, ttick, tInFlight, lastCycle, done,
                   initCursor, cu, lastLogin, tret, staffVars, call, mainVars>>

\* SIGINT / SIGTERM: signal.NotifyContext cancels ctx
Cancel ==
    /\ ~cancelled
    /\ cancelled' = TRUE
    /\ UNCHANGED <<today, tz, dbVars, taskVars, staffVars, call,
                   mainVars>>

\* the process is started again: the tables persist, the rest is new
Restart ==
    /\ cancelled' = FALSE
    /\ tpc' = IF tpc = "off" THEN "off" ELSE "login"
    /\ ttick' = 0
    /\ tInFlight' = 0
    /\ spc' = IF spc = "off" THEN "off" ELSE "start"
    /\ stick' = 0
    /\ sInFlight' = 0
    /\ lastKnownHash' = ""
    /\ tdate' = 0
    /\ cu' = NoCatchUp
    /\ lastStaff' = NoCycle
    /\ session' = "none"
    /\ lastLogin' = NoCycle
    /\ tret' = Running
    /\ sret' = Running
    /\ mainErr' = "nil"
    /\ stored' = {}
    /\ srv' = "serving"
    /\ mpc' = "waiting"
    /\ UNCHANGED <<today, tz, dbVars, lastCycle, done, initCursor, call, cookieJar,
                   jarCalls, race>>

\* ------------------------------------------------------------------- main
\* what the assignment err = x.Start(...) of a service goroutine leaves in
\* main's err: the goroutines are not ordered with each other, so when the
\* other one may assign at the same time the value can be a mix of the two
StoredError(own, other, otherPending) ==
    {IF own.err THEN own.cause ELSE "nil"} \cup
    (IF otherPending /\ own.err # other.err THEN {"torn"} ELSE {})

\* the goroutine of the task service: if err = taskService.Start(...)
TaskStoreErr ==
    /\ tret.returned
    /\ "task" \notin stored
    /\ mainErr' \in StoredError(tret, sret, sret.returned /\ "staff" \notin stored)
    /\ stored' = stored \cup {"task"}
    /\ UNCHANGED <<today, tz, cancelled, dbVars, taskVars, staffVars, call, srv, mpc,
                   cookieJar, jarCalls, race>>

\* the goroutine of the employee service: if err = staff.Start(...)
StaffStoreErr ==
    /\ sret.returned
    /\ "staff" \notin stored
    /\ mainErr' \in StoredError(sret, tret, tret.returned /\ "task" \notin stored)
    /\ stored' = stored \cup {"staff"}
    /\ UNCHANGED <<today, tz, cancelled, dbVars, taskVars, staffVars, call, srv, mpc,
                   cookieJar, jarCalls, race>>

\* ----------------------------------------------------------- cookie jar
Hosts == {"h1", "h2"}

\* the session cookie of the login response and another cookie of the host;
\* a cookie is written as its name
CookieLists == {<<>>, <<"sid">>, <<"lang">>, <<"sid", "lang">>}

\* make(map[string][]*http.Cookie); mu unlocked (0); latest is the list of
\* the last SetCookies call that returned, per host
NewCookieJar ==
    [mu |-> 0, jar |-> [h \in Hosts |-> <<>>], latest |-> [h \in Hosts |-> <<>>]]

Idle == [pc |-> "idle"]

\* ------------------------------------------------------------------- tables
NoTasks == [id \in TaskIDs |-> NoRow]

\* persons 1 and 2 have the short names A and B; C is nobody's short name
Persons ==
    [id \in EmpIDs |->
        IF id = 1 THEN Employee(1, "n1", "A", "p", "e1", "ph")
        ELSE IF id = 2 THEN Employee(2, "n1", "B", "p", "e2", "ph")
        ELSE NoRow]

InitCommon ==
    /\ today \in Days
    /\ cancelled = FALSE
    /\ status \in {<<>>, <<1>>}
    /\ task_types = <<>>
    /\ tasks = NoTasks
    /\ task_executors = {}
    /\ tdate = 0
    /\ ttick = 0
    /\ tInFlight = 0
    /\ lastCycle = NoCycle
    /\ done = {}
    /\ initCursor = GetLastDate(status)
    /\ cu = NoCatchUp
    /\ stick = 0
    /\ sInFlight = 0
    /\ lastKnownHash = ""
    /\ lastStaff = NoCycle
    /\ call = NoCycle
    /\ session = "none"
    /\ lastLogin = NoCycle
    /\ tret = Running
    /\ sret = Running
    /\ mainErr = "nil"
    /\ stored = {}
    /\ srv = "serving"
    /\ mpc = "waiting"
    /\ cookieJar = NewCookieJar

\* the task pipeline alone
InitTaskPipeline ==
    /\ InitCommon
    /\ race = <<>>
    /\ jarCalls = <<>>
    /\ employees = Persons
    /\ tpc = "login"
    /\ spc = "off"

\* the process runs in any zone
InitTasks ==
    /\ InitTaskPipeline
    /\ tz \in ZoneClocks

\* the process runs in UTC
InitTaskRun ==
    /\ InitTaskPipeline
    /\ tz = UTCClock

NextTasks ==
    \/ TaskLogin
    \/ TaskGetTaskTypes
    \/ CatchUp
    \/ MaintTick
    \/ MaintCancel
    \/ ProcessDateReturn(EngineFetches)
    \/ TaskTickElapse
    \/ ClockAdvance
    \/ LocalMidnight
    \/ SessionExpire
    \/ Cancel
    \/ Restart

SpecTasks == InitTasks /\ [][NextTasks]_vars

\* one run of the task pipeline over full pages: no restart, no signal, no
\* midnight
NextTaskRun ==
    \/ TaskLogin
    \/ TaskGetTaskTypes
    \/ CatchUp
    \/ MaintTick
    \/ ProcessDateReturn(Fetches(PipelineTasks))
    \/ TaskTickElapse

SpecTaskRun == InitTaskRun /\ [][NextTaskRun]_vars

\* the employee pipeline alone, over full responses
InitStaff ==
    /\ InitCommon
    /\ tz = UTCClock
    /\ race = <<>>
    /\ jarCalls = <<>>
    /\ today = 0
    /\ status = <<>>
    /\ employees = [id \in EmpIDs |-> NoRow]
    /\ tpc = "off"
    /\ spc = "start"

NextStaff ==
    \/ StaffStart
    \/ StaffTick
    \/ StaffCancel
    \/ ProcessEmployeeReturn(Responses(StaffEmployees))
    \/ StaffTickElapse
    \/ Cancel
    \/ Restart

SpecStaff == InitStaff /\ [][NextStaff]_vars

\* both pipelines in one process
InitBoth ==
    /\ InitCommon
    /\ tz = UTCClock
    /\ race = <<>>
    /\ jarCalls = <<>>
    /\ employees = Persons
    /\ tpc = "login"
    /\ spc = "start"

NextBoth ==
    \/ TaskLogin
    \/ TaskGetTaskTypes
    \/ CatchUp
    \/ MaintTick
    \/ MaintCancel
    \/ ProcessDateReturn(EngineFetches)
    \/ TaskTickElapse
    \/ StaffStart
    \/ StaffTick
    \/ StaffCancel
    \/ ProcessEmployeeReturn(EngineResponses)
    \/ StaffTickElapse
    \/ TaskStoreErr
    \/ StaffStoreErr
    \/ Cancel

SpecBoth == InitBoth /\ [][NextBoth]_vars

\* Scheduling: a cycle in flight returns (its requests and statements run
\* under ctx and time out), and a select whose ctx.Done() case is ready again
\* and again takes it at some point, the ready case being chosen at random.
FairBoth ==
    /\ WF_vars(ProcessDateReturn(EngineFetches))
    /\ WF_vars(ProcessEmployeeReturn(EngineResponses))
    /\ SF_vars(MaintCancel)
    /\ SF_vars(StaffCancel)

\* both services started on day 0 with the cursor at day 1: catch-up has
\* nothing to do and both reach maintenance
InitBothLive ==
    /\ InitBoth
    /\ today = 0
    /\ status = <<1>>

SpecBothLive == InitBothLive /\ [][NextBoth]_vars /\ FairBoth

\* ------------------------------------------------------- process shutdown
\* the goroutine of the monitoring server: StartMonitoringServer serves until
\* ctx is cancelled, then shuts the listener down and returns
MonitoringServerReturn ==
    /\ srv = "serving"
    /\ cancelled
    /\ srv' = "returned"
    /\ UNCHANGED <<today, tz, cancelled, dbVars, taskVars, staffVars, call, mainErr,
                   stored, mpc, cookieJar, jarCalls, race>>

\* wgr.Wait() returns after the three wgr.Done() and main returns; a service
\* goroutine calls wgr.Done() after it has assigned err
MainReturn ==
    /\ mpc = "waiting"
    /\ srv = "returned"
    /\ stored = {"task", "staff"}
    /\ mpc' = "exited"
    /\ UNCHANGED <<today, tz, cancelled, dbVars, taskVars, staffVars, call, mainErr,
                   stored, srv, cookieJar, jarCalls, race>>

\* the process from its start on day 0, the cursor absent or at day 1, until
\* main has returned
InitShutdown ==
    /\ InitBoth
    /\ today = 0

NextShutdown ==
    \/ TaskLogin
    \/ TaskGetTaskTypes
    \/ CatchUp
    \/ MaintTick
    \/ MaintCancel
    \/ ProcessDateReturn(EngineFetches)
    \/ TaskTickElapse
    \/ StaffStart
    \/ StaffTick
    \/ StaffCancel
    \/ ProcessEmployeeReturn(EngineResponses)
    \/ StaffTickElapse
    \/ TaskStoreErr
    \/ StaffStoreErr
    \/ MonitoringServerReturn
    \/ MainReturn
    \/ Cancel

\* Scheduling: every goroutine that can take a step takes it (a call in
\* flight returns, its requests and statements running under ctx; the login
\* retry is bounded), and a select whose ctx.Done() case is ready again and
\* again takes it at some point, the ready case being chosen at random.
FairShutdown ==
    /\ WF_vars(TaskLogin)
    /\ WF_vars(TaskGetTaskTypes)
    /\ WF_vars(CatchUp)
    /\ WF_vars(ProcessDateReturn(EngineFetches))
    /\ SF_vars(MaintCancel)
    /\ WF_vars(StaffStart)
    /\ WF_vars(ProcessEmployeeReturn(EngineResponses))
    /\ SF_vars(StaffCancel)
    /\ WF_vars(TaskStoreErr)
    /\ WF_vars(StaffStoreErr)
    /\ WF_vars(MonitoringServerReturn)
    /\ WF_vars(MainReturn)

SpecShutdown == InitShutdown /\ [][NextShutdown]_vars /\ FairShutdown

\* ------------------------------------ ProcessEmployee over the same list
\* responses that carry employees: the fingerprint gate is not taken
ReconcileResponses ==
    {[ok |-> TRUE, NewHash |-> "h1", Employees |-> l] :
        l \in SeqsUpTo(StaffEmployees, MaxEmp) \ {<<>>}}

InitReconcile ==
    /\ InitCommon
    /\ tz = UTCClock
    /\ race = <<>>
    /\ jarCalls = <<>>
    /\ today = 0
    /\ status = <<>>
    /\ employees \in {[id \in EmpIDs |-> NoRow], Persons}
    /\ tpc = "off"
    /\ spc = "off"

\* ProcessEmployee runs over a response, and then once more over the same
\* response; first is the record of the run before
RunProcessEmployee ==
    /\ IF call = NoCycle THEN TRUE ELSE call.first = NoCycle
    /\ \E resp \in (IF call = NoCycle THEN ReconcileResponses ELSE {call.resp}) :
       \E rnd \in Draws(resp) :
       \E fuel \in 0..ProcessEmployee(ES(employees, lastKnownHash, 0), resp, rnd).stmts :
       \E r \in {ProcessEmployee(ES(employees, lastKnownHash, fuel), resp, rnd)} :
          /\ employees' = r.employees
          /\ lastKnownHash' = r.hash
          /\ call' = [op |-> "ProcessEmployee", resp |-> resp, err |-> r.err,
                      calls |-> r.calls, decisions |-> r.decisions,
                      dbFailed |-> fuel > 0, first |-> call]
    /\ UNCHANGED <<today, tz, cancelled, status, task_types, tasks, task_executors, taskVars,
                   spc, stick, sInFlight, lastStaff, sret, mainVars>>

NextReconcile == RunProcessEmployee

SpecReconcile == InitReconcile /\ [][NextReconcile]_vars

\* ------------------------------------------------- repository calls alone
\* persons 1, 2, 3 with the short names A, B, C
PersonsABC ==
    [id \in EmpIDs |->
        IF id = 1 THEN Employee(1, "n1", "A", "p", "e1", "ph")
        ELSE IF id = 2 THEN Employee(2, "n1", "B", "p", "e2", "ph")
        ELSE Employee(3, "n1", "C", "p", "e3", "ph")]

\* persons 1 and 2 share the short name A
PersonsAAC ==
    [id \in EmpIDs |->
        IF id = 1 THEN Employee(1, "n1", "A", "p", "e1", "ph")
        ELSE IF id = 2 THEN Employee(2, "n1", "A", "p", "e2", "ph")
        ELSE Employee(3, "n1", "C", "p", "e3", "ph")]

RepoTasks == {Task(id, "t1", 0, "b1", <<>>) : id \in TaskIDs}

\* executor_id of the links stored for the task
StoredExecutors(te, taskID) == {l[2] : l \in {m \in te : m[1] = taskID}}

InitRepo ==
    /\ InitCommon
    /\ tz = UTCClock
    /\ race = <<>>
    /\ jarCalls = <<>>
    /\ today = 0
    /\ status = <<>>
    /\ employees \in {Persons, PersonsABC, PersonsAAC}
    /\ tpc = "off"
    /\ spc = "off"

\* a caller runs SaveTaskData(task)
RepoSaveTaskData ==
    /\ \E task \in RepoTasks :
       \E fuel \in 0..SaveTaskData(DB(status, task_types, tasks, task_executors, 0),
                                   employees, task).stmts :
       \E r \in {SaveTaskData(DB(status, task_types, tasks, task_executors, fuel),
                              employees, task)} :
          /\ task_types' = r.task_types
          /\ tasks' = r.tasks
          /\ task_executors' = r.task_executors
          /\ call' = [op |-> "SaveTaskData", taskID |-> task.ID,
                      executors |-> task.Executors, err |-> r.err,
                      before |-> StoredExecutors(task_executors, task.ID),
                      task |-> task, writes |-> r.writes,
                      stored |-> tasks[task.ID], types |-> task_types]
    /\ UNCHANGED <<today, tz, cancelled, status, employees, taskVars, staffVars,
                   mainVars>>

\* a caller runs UpdateTaskExecutors(taskID, executors)
RepoUpdateTaskExecutors ==
    /\ \E taskID \in TaskIDs :
       \E executors \in SeqsUpTo(ExecNames, MaxExec) :
       \E fuel \in 0..(Len(executors) + 1) :
       \E r \in {UpdateTaskExecutors(DB(status, task_types, tasks, task_executors, fuel),
                                     employees, taskID, executors)} :
          /\ task_executors' = r.task_executors
          /\ call' = [op |-> "UpdateTaskExecutors", taskID |-> taskID,
                      executors |-> executors, err |-> r.err,
                      before |-> StoredExecutors(task_executors, taskID)]
    /\ UNCHANGED <<today, tz, cancelled, status, task_types, tasks, employees, taskVars,
                   staffVars,
                   mainVars>>

NextRepo ==
    \/ RepoSaveTaskData
    \/ RepoUpdateTaskExecutors

SpecRepo == InitRepo /\ [][NextRepo]_vars

\* ------------------------------------------ UpsertTask calls on their own
\* tasks 1 and 2, each with either type, creation date and body
UpsertTasks ==
    {Task(id, type, created, body, <<>>) :
        id \in TaskIDs, type \in TypeNames, created \in {0, 1}, body \in {"b1", "b2"}}

\* a caller runs GetOrCreateTaskTypeID(typeName)
RepoGetOrCreateTaskTypeID ==
    /\ \E typeName \in TypeNames :
       \E fuel \in 0..3 :
       \E r \in {GetOrCreateTaskTypeID(DB(status, task_types, tasks, task_executors, fuel),
                                       typeName)} :
          /\ task_types' = r.task_types
          /\ call' = [op |-> "GetOrCreateTaskTypeID", typeName |-> typeName,
                      err |-> r.err]
    /\ UNCHANGED <<today, tz, cancelled, status, tasks, task_executors, employees, taskVars,
                   staffVars, mainVars>>

\* a caller runs UpsertTask(task, typeID) with the type_id it got for
\* task.Type, as SaveTaskData does
RepoUpsertTask ==
    /\ \E task \in UpsertTasks :
       \E fuel \in 0..2 :
          /\ task.Type \in Range(task_types)
          /\ \E r \in {UpsertTask(DB(status, task_types, tasks, task_executors, fuel),
                                   task, TypeID(task_types, task.Type))} :
                /\ tasks' = r.tasks
                /\ call' = [op |-> "UpsertTask", task |-> task, err |-> r.err,
                            stored |-> tasks[task.ID]]
    /\ UNCHANGED <<today, tz, cancelled, status, task_types, task_executors, employees,
                   taskVars, staffVars, mainVars>>

NextUpsert ==
    \/ RepoGetOrCreateTaskTypeID
    \/ RepoUpsertTask

SpecUpsert == InitRepo /\ [][NextUpsert]_vars

\* ------------------------------------------------------ parseTasksFromBody
\* A row of the page (tr[tag^="row_"]) is the trimmed text of its id cell,
\* of its createdAt cell and of its closedAt cell.
IDTexts == {"", "x", "7", "8"}
DateTexts == {"01.06.2025", "soon"}

PageRow(id, createdAt, closedAt) == [id |-> id, createdAt |-> createdAt, closedAt |-> closedAt]

PageRows == {PageRow(id, c, d) : id \in IDTexts, c \in DateTexts, d \in DateTexts}

\* the zero time.Time
ZeroTime == 0

\* strconv.Atoi on the texts of IDTexts
Atoi(text) ==
    IF text = "7" THEN [ok |-> TRUE, value |-> 7]
    ELSE IF text = "8" THEN [ok |-> TRUE, value |-> 8]
    ELSE [ok |-> FALSE, value |-> 0]

\* extractInt: an error for the empty text and for a text Atoi rejects
extractInt(text) ==
    IF text = "" THEN [ok |-> FALSE, value |-> 0] ELSE Atoi(text)

\* extractDate with the layout 02.01.2006; the date is the day of June 2025
extractDate(text) ==
    IF text = "" THEN [ok |-> FALSE, value |-> ZeroTime]
    ELSE IF text = "01.06.2025" THEN [ok |-> TRUE, value |-> 1]
    ELSE [ok |-> FALSE, value |-> ZeroTime]

\* the state of a parseTasksFromBody call: tasks, parseErrors (kind and
\* index of the row) and the error returned
Parsed(ts, errs, e) == [tasks |-> ts, parseErrors |-> errs, err |-> e]

\* the function passed to Each, for the i-th row
ParseRow(p, rows, i, isCompleted) ==
    Then(extractInt(rows[i].id), LAMBDA id :
    IF ~id.ok THEN [p EXCEPT !.parseErrors = Append(@, <<"ID", i>>)]
    ELSE Then(extractDate(rows[i].createdAt), LAMBDA created :
         Then(IF isCompleted THEN extractDate(rows[i].closedAt)
              ELSE [ok |-> TRUE, value |-> ZeroTime], LAMBDA closed :
         [p EXCEPT
            !.parseErrors = @ \o (IF created.ok THEN <<>> ELSE << <<"CreatedAt", i>> >>)
                              \o (IF closed.ok THEN <<>> ELSE << <<"ClosedAt", i>> >>),
            !.tasks = Append(@, [ID |-> id.value, CreatedAt |-> created.value,
                                 ClosedAt |-> closed.value])])))

RECURSIVE EachRow_AbortOnBadRow(_, _, _, _)
EachRow_AbortOnBadRow(p, rows, i, isCompleted) ==
    IF i > Len(rows) THEN p
    ELSE IF ~extractInt(rows[i].id).ok
    THEN Parsed(<<>>, Append(p.parseErrors, <<"ID", i>>), "parse")
    ELSE EachRow_AbortOnBadRow(ParseRow(p, rows, i, isCompleted), rows, i + 1, isCompleted)

\* doc.Find(...).Each(...): every row in page order
RECURSIVE EachRow(_, _, _, _)
EachRow(p, rows, i, isCompleted) ==
    IF i > Len(rows) THEN p
    ELSE EachRow(ParseRow(p, rows, i, isCompleted), rows, i + 1, isCompleted)

\* docOK: goquery.NewDocumentFromReader could read the body
parseTasksFromBody(docOK, rows, isCompleted) ==
    IF ~docOK THEN Parsed(<<>>, <<>>, "html")
    ELSE EachRow(Parsed(<<>>, <<>>, "nil"), rows, 1, isCompleted)

\* one call of parseTasksFromBody on a page
ParseTasksFromBody ==
    /\ call = NoCycle
    /\ \E docOK \in BOOLEAN :
       \E rows \in SeqsUpTo(PageRows, MaxPageRows) :
       \E isCompleted \in BOOLEAN :
          call' = [op |-> "parseTasksFromBody", docOK |-> docOK, rows |-> rows,
                   isCompleted |-> isCompleted,
                   result |-> parseTasksFromBody(docOK, rows, isCompleted)]
    /\ UNCHANGED <<today, tz, cancelled, dbVars, taskVars, staffVars, mainVars>>

NextParse == ParseTasksFromBody

SpecParse == InitRepo /\ [][NextParse]_vars

\* ------------------------------------------------- strings of the parser
\* A string is the sequence of its characters; the markers "<br/>" and "<i>"
\* of a cell's markup are one element each.
RECURSIVE TrimLeft(_)
TrimLeft(str) == IF str # <<>> /\ Head(str) = " " THEN TrimLeft(Tail(str)) ELSE str

RECURSIVE TrimRight(_)
TrimRight(str) ==
    IF str # <<>> /\ str[Len(str)] = " " THEN TrimRight(SubSeq(str, 1, Len(str) - 1))
    ELSE str

\* strings.TrimSpace
TrimSpace(str) == TrimRight(TrimLeft(str))

\* strings.Contains(str, sep) for a separator of one element
Contains(str, sep) == \E i \in 1..Len(str) : str[i] = sep

\* strings.Split(str, sep): the parts between the separators, one more than
\* there are separators
RECURSIVE Split(_, _)
Split(str, sep) ==
    IF ~Contains(str, sep) THEN <<str>>
    ELSE Then(CHOOSE i \in 1..Len(str) :
                 str[i] = sep /\ \A j \in 1..(i - 1) : str[j] # sep, LAMBDA i :
         <<SubSeq(str, 1, i - 1)>> \o Split(SubSeq(str, i + 1, Len(str)), sep))

\* -------------------------------------------------------- ParseCustomerInfo
\* The customer cell as goquery parses it: its nodes in document order, each
\* a hyperlink (an "a" element) or plain text, with the text it holds.
CustomerChars == {"a", " ", "-"}
CellNode(isLink, text) == [isLink |-> isLink, text |-> text]
CellNodes == {CellNode(l, t) : l \in BOOLEAN, t \in SeqsUpTo(CustomerChars, MaxText)}
CustomerCells == SeqsUpTo(CellNodes, 2)

\* the login returned for a cell without login
NA == <<"n", "/", "a">>

\* Selection.Text(): the texts of the selected nodes, one after the other
RECURSIVE TextOf(_, _)
TextOf(cell, linksOnly) ==
    IF cell = <<>> THEN <<>>
    ELSE (IF linksOnly /\ ~Head(cell).isLink THEN <<>> ELSE Head(cell).text)
         \o TextOf(Tail(cell), linksOnly)

\* doc.Find("a").Length() != 0
HasLink(cell) == \E i \in 1..Len(cell) : cell[i].isLink

ParseCustomerInfo_PartsNotTrimmed(cell) ==
    Then(Split(TrimSpace(TextOf(cell, TRUE)), "-"), LAMBDA parts :
    IF HasLink(cell) /\ Len(parts) = 2
    THEN <<parts[1], parts[2]>>
    ELSE IF TrimSpace(TextOf(cell, FALSE)) # <<>>
    THEN <<TrimSpace(TextOf(cell, FALSE)), NA>>
    ELSE << <<>>, <<>> >>)

\* the pair (customerName, customerLogin); strings.NewReader never fails, so
\* the error branch of NewDocumentFromReader is not taken
ParseCustomerInfo(cell) ==
    Then(Split(TrimSpace(TextOf(cell, TRUE)), "-"), LAMBDA parts :
    IF HasLink(cell) /\ Len(parts) = 2
    THEN <<TrimSpace(parts[1]), TrimSpace(parts[2])>>
    ELSE IF TrimSpace(TextOf(cell, FALSE)) # <<>>
    THEN <<TrimSpace(TextOf(cell, FALSE)), NA>>
    ELSE << <<>>, <<>> >>)

\* --------------------------------------------------------------- ParseLinks
\* the markup of a comments or executors cell, as Selection.Html() gives it
MarkupChars == {"a", " ", "<br/>", "<i>"}
Markups == SeqsUpTo(MarkupChars, MaxMarkup)

\* the loop of ParseLinks over the parts, from the i-th on
RECURSIVE LinkParts_NoFinalTrim(_, _)
LinkParts_NoFinalTrim(parts, i) ==
    IF i > Len(parts) THEN <<>>
    ELSE Then(TrimSpace(parts[i]), LAMBDA trimmed :
         Then(IF Contains(trimmed, "<i>") THEN Split(trimmed, "<i>")[1] ELSE trimmed,
              LAMBDA text :
         (IF text # <<>> THEN <<text>> ELSE <<>>)
             \o LinkParts_NoFinalTrim(parts, i + 1)))

RECURSIVE LinkParts(_, _)
LinkParts(parts, i) ==
    IF i > Len(parts) THEN <<>>
    ELSE Then(TrimSpace(parts[i]), LAMBDA trimmed :
         Then(IF Contains(trimmed, "<i>") THEN Split(trimmed, "<i>")[1] ELSE trimmed,
              LAMBDA text :
         (IF text # <<>> THEN <<TrimSpace(text)>> ELSE <<>>) \o LinkParts(parts, i + 1)))

ParseLinks(rawHTML) == LinkParts(Split(rawHTML, "<br/>"), 1)

\* ------------------------------------------ calls of the two cell parsers
InitText ==
    /\ InitCommon
    /\ tz = UTCClock
    /\ race = <<>>
    /\ jarCalls = <<>>
    /\ today = 0
    /\ status = <<>>
    /\ employees = Persons
    /\ tpc = "off"
    /\ spc = "off"

\* one call of ParseCustomerInfo on the customer cell of a row
CallParseCustomerInfo ==
    /\ call = NoCycle
    /\ \E cell \in CustomerCells :
          call' = [op |-> "ParseCustomerInfo", cell |-> cell,
                   result |-> ParseCustomerInfo(cell)]
    /\ UNCHANGED <<today, tz, cancelled, dbVars, taskVars, staffVars, mainVars>>

\* one call of ParseLinks on the markup of a cell
CallParseLinks ==
    /\ call = NoCycle
    /\ \E rawHTML \in Markups :
          call' = [op |-> "ParseLinks", rawHTML |-> rawHTML, result |-> ParseLinks(rawHTML)]
    /\ UNCHANGED <<today, tz, cancelled, dbVars, taskVars, staffVars, mainVars>>

NextText ==
    \/ CallParseCustomerInfo
    \/ CallParseLinks

SpecText == InitText /\ [][NextText]_vars

\* ------------------------------- concurrent GetOrCreateTaskTypeID calls
\* Callers run GetOrCreateTaskTypeID statement by statement against the one
\* task_types table; every statement is its own transaction.
Callers == 1..MaxCallers

\* INSERT INTO task_types (type_name) VALUES ($1)
InsertTaskType_NoOnConflict(tt, name) ==
    IF name \in Range(tt) THEN [tt |-> tt, err |-> "unique"]
    ELSE [tt |-> Append(tt, name), err |-> "none"]

\* ... ON CONFLICT (type_name) DO NOTHING
InsertTaskType(tt, name) ==
    [tt |-> IF name \in Range(tt) THEN tt ELSE Append(tt, name), err |-> "none"]

Returned(c, id, err) == [race EXCEPT ![c].pc = "done", ![c].id = id, ![c].err = err]

\* SELECT type_id FROM task_types WHERE type_name = $1
RaceSelect(c) ==
    /\ race[c].pc = "select"
    /\ \E fails \in BOOLEAN :
          race' = IF fails THEN Returned(c, 0, "db")
                  ELSE IF race[c].name \in Range(task_types)
                  THEN Returned(c, TypeID(task_types, race[c].name), "none")
                  ELSE [race EXCEPT ![c].pc = "insert"]
    /\ UNCHANGED <<today, tz, cancelled, dbVars, taskVars, staffVars, call, mainErr, stored,
                   srv, mpc, cookieJar, jarCalls>>

\* the INSERT after pgx.ErrNoRows
RaceInsert(c) ==
    /\ race[c].pc = "insert"
    /\ \E fails \in BOOLEAN :
       \E r \in {InsertTaskType(task_types, race[c].name)} :
          IF fails THEN /\ race' = Returned(c, 0, "db")
                        /\ UNCHANGED task_types
          ELSE /\ task_types' = r.tt
               /\ race' = IF r.err # "none" THEN Returned(c, 0, r.err)
                           ELSE [race EXCEPT ![c].pc = "reselect", ![c].inserted = TRUE]
    /\ UNCHANGED <<today, tz, cancelled, status, tasks, task_executors, employees, taskVars,
                   staffVars, call, mainErr, stored,
                   srv, mpc, cookieJar, jarCalls>>

\* the second SELECT: "now, we get the ID again"
RaceReselect(c) ==
    /\ race[c].pc = "reselect"
    /\ \E fails \in BOOLEAN :
          race' = IF fails THEN Returned(c, 0, "db")
                  ELSE IF race[c].name \in Range(task_types)
                  THEN Returned(c, TypeID(task_types, race[c].name), "none")
                  ELSE Returned(c, 0, "norows")
    /\ UNCHANGED <<today, tz, cancelled, dbVars, taskVars, staffVars, call, mainErr, stored,
                   srv, mpc, cookieJar, jarCalls>>

InitRace ==
    /\ InitCommon
    /\ jarCalls = <<>>
    /\ tz = UTCClock
    /\ today = 0
    /\ status = <<>>
    /\ employees = Persons
    /\ tpc = "off"
    /\ spc = "off"
    /\ race \in [Callers -> {[pc |-> "select", name |-> n, id |-> 0, err |-> "none",
                                inserted |-> FALSE] : n \in TypeNames}]

NextRace ==
    \/ \E c \in Callers : RaceSelect(c)
    \/ \E c \in Callers : RaceInsert(c)
    \/ \E c \in Callers : RaceReselect(c)

SpecRace == InitRace /\ [][NextRace]_vars

\* ------------------------------------ concurrent calls of the cookie jar
\* a goroutine calls SetCookies(u, cookies) or Cookies(u) and reaches c.mu.Lock()
JarCall(c) ==
    /\ jarCalls[c] = Idle
    /\ \E op \in {"SetCookies", "Cookies"}, h \in Hosts :
          jarCalls' = [jarCalls EXCEPT ![c] = [pc |-> "lock", op |-> op, host |-> h]]
    /\ UNCHANGED <<today, tz, cancelled, dbVars, taskVars, staffVars, call, mainErr, stored,
                   srv, mpc, cookieJar, race>>

Lock_NoMutex(c) ==
    /\ jarCalls[c].pc = "lock"
    /\ cookieJar' = [cookieJar EXCEPT !.mu = c]
    /\ jarCalls' = [jarCalls EXCEPT ![c].pc = "locked"]
    /\ UNCHANGED <<today, tz, cancelled, dbVars, taskVars, staffVars, call, mainErr, stored,
                   srv, mpc, race>>

\* c.mu.Lock() returns: the mutex was free
Lock(c) ==
    /\ jarCalls[c].pc = "lock"
    /\ cookieJar.mu = 0
    /\ cookieJar' = [cookieJar EXCEPT !.mu = c]
    /\ jarCalls' = [jarCalls EXCEPT ![c].pc = "locked"]
    /\ UNCHANGED <<today, tz, cancelled, dbVars, taskVars, staffVars, call, mainErr, stored,
                   srv, mpc, race>>

\* c.jar[u.Host] = cookies; before is the map before the assignment
SetCookies(c) ==
    /\ jarCalls[c].pc = "locked"
    /\ jarCalls[c].op = "SetCookies"
    /\ \E cookies \in CookieLists :
          /\ cookieJar' = [cookieJar EXCEPT !.jar[jarCalls[c].host] = cookies]
          /\ jarCalls' = [jarCalls EXCEPT ![c] =
                 [pc |-> "set", op |-> "SetCookies", host |-> jarCalls[c].host,
                  cookies |-> cookies, before |-> cookieJar.jar]]
    /\ UNCHANGED <<today, tz, cancelled, dbVars, taskVars, staffVars, call, mainErr, stored,
                   srv, mpc, race>>

\* return c.jar[u.Host]
Cookies(c) ==
    /\ jarCalls[c].pc = "locked"
    /\ jarCalls[c].op = "Cookies"
    /\ jarCalls' = [jarCalls EXCEPT ![c] =
           [pc |-> "got", op |-> "Cookies", host |-> jarCalls[c].host,
            ret |-> cookieJar.jar[jarCalls[c].host]]]
    /\ UNCHANGED <<today, tz, cancelled, dbVars, taskVars, staffVars, call, mainErr, stored,
                   srv, mpc, cookieJar, race>>

\* defer c.mu.Unlock(), and the call returns
Unlock(c) ==
    /\ jarCalls[c].pc \in {"set", "got"}
    /\ cookieJar' = [cookieJar EXCEPT
           !.mu = 0,
           !.latest = IF jarCalls[c].op = "SetCookies"
                      THEN [@ EXCEPT ![jarCalls[c].host] = jarCalls[c].cookies]
                      ELSE @]
    /\ jarCalls' = [jarCalls EXCEPT ![c] = Idle]
    /\ UNCHANGED <<today, tz, cancelled, dbVars, taskVars, staffVars, call, mainErr, stored,
                   srv, mpc, race>>

InitCookies ==
    /\ InitCommon
    /\ tz = UTCClock
    /\ race = <<>>
    /\ today = 0
    /\ status = <<>>
    /\ employees = Persons
    /\ tpc = "off"
    /\ spc = "off"
    /\ jarCalls = [c \in Callers |-> Idle]

NextCookies ==
    \/ \E c \in Callers : JarCall(c)
    \/ \E c \in Callers : Lock(c)
    \/ \E c \in Callers : SetCookies(c)
    \/ \E c \in Callers : Cookies(c)
    \/ \E c \in Callers : Unlock(c)

SpecCookies == InitCookies /\ [][NextCookies]_vars

\* ================================================================ properties
\* the days d, d+1, ..., T in increasing order (none when d > T)
DaysFromTo(d, T) == [i \in 1..(T - d + 1) |-> d + i - 1]

IsPrefix(a, b) == Len(a) <= Len(b) /\ \A i \in 1..Len(a) : a[i] = b[i]

CursorOps(ops) == {i \in 1..Len(ops) : ops[i][1] = "cursor"}

FailedSaves(ops) == {i \in 1..Len(ops) : ops[i][1] = "save" /\ ops[i][3] = FALSE}

\* C1 - Catch-up termination: a catchUpToNow call that starts with cursor d on
\* day T, during which the day does not change, runs its processDate cycles
\* for d, d+1, ... in increasing order and never past T, and when it returns
\* nil (Start is in maintenance) it has run exactly one cycle for each of
\* d..T: T-d+1 cycles, none when d > T.
C1_CatchUpTermination ==
    cu.clean =>
        /\ IsPrefix(cu.log, DaysFromTo(cu.d, cu.T))
        /\ tpc = "maint" => cu.log = DaysFromTo(cu.d, cu.T)

\* catch-up from the sentinel day 0 on day 2 has returned after the three
\* cycles 0, 1, 2
C1_Witness ==
    tpc = "maint" /\ cu.clean /\ cu.d = 0 /\ cu.T = 2 /\ cu.log = <<0, 1, 2>>

\* C2 - Cursor advance: when processDate for date D returned nil, the cursor
\* was written exactly once, as the last step after a successful save of
\* every task of the page, and the cursor read back is D + 1.
C2_CursorAdvance ==
    (lastCycle # NoCycle /\ lastCycle.err = "none") =>
        /\ Cardinality(CursorOps(lastCycle.ops)) = 1
        /\ Len(lastCycle.ops) = Len(lastCycle.fetch.tasks) + 1
        /\ \A i \in 1..Len(lastCycle.fetch.tasks) : lastCycle.ops[i] = <<"save", i, TRUE>>
        /\ lastCycle.ops[Len(lastCycle.ops)] = <<"cursor", lastCycle.date + 1>>
        /\ GetLastProcessedDate(status) = [date |-> lastCycle.date + 1]

\* a cycle over a page of two tasks returned nil
C2_Witness ==
    /\ lastCycle # NoCycle
    /\ lastCycle.err = "none"
    /\ Len(lastCycle.fetch.tasks) = 2
    /\ GetLastDate(status) = lastCycle.date + 1

\* C3 - No advance on failure: when the fetch failed or the save of a task
\* failed, processDate returned an error, saved no task after the failing
\* one, did not write the cursor, and the persisted cursor is the one from
\* before the cycle.
C3_NoAdvanceOnFailure ==
    (lastCycle # NoCycle /\ (~lastCycle.fetch.ok \/ FailedSaves(lastCycle.ops) # {})) =>
        /\ lastCycle.err # "none"
        /\ CursorOps(lastCycle.ops) = {}
        /\ \A i \in FailedSaves(lastCycle.ops) : Len(lastCycle.ops) = i
        /\ ~lastCycle.fetch.ok => lastCycle.ops = <<>>
        /\ GetLastDate(status) = lastCycle.cursorBefore

\* the save of the first of two tasks failed
C3_Witness ==
    /\ lastCycle # NoCycle
    /\ lastCycle.err = "save"
    /\ Len(lastCycle.fetch.tasks) = 2
    /\ lastCycle.ops = <<<<"save", 1, FALSE>>>>

\* C4 - Cursor completeness: every date from the initial cursor date up to,
\* not including, the persisted cursor date has had a processDate cycle that
\* returned nil.
C4_CursorCompleteness ==
    \A x \in initCursor..(GetLastDate(status) - 1) : x \in done

\* C5 - Retry of the same date: the cycle started after a cycle for date D
\* aborted is again a cycle for D, in catch-up and in maintenance.
C5_RetrySameDate ==
    [][(tInFlight' = tInFlight + 1 /\ lastCycle # NoCycle /\ lastCycle.err # "none")
          => tdate' = lastCycle.date]_vars

\* C6 - Fingerprint short-circuit: when the NewHash of the response equals
\* lastKnownHash, ProcessEmployee makes no repository call, whatever
\* employees the response carries.
C6_FingerprintShortCircuit ==
    (lastStaff # NoCycle /\ lastStaff.resp.ok /\ lastStaff.resp.NewHash = lastStaff.hashBefore)
        => lastStaff.calls = <<>>

C8_ExecutorReplacement ==
    (/\ call # NoCycle
     /\ call.op = "UpdateTaskExecutors"
     /\ call.err = "none"
     /\ \A n \in Range(call.executors) : ExecutorIDs(employees, n) # {})
        => StoredExecutors(task_executors, call.taskID) =
               UNION {ExecutorIDs(employees, n) : n \in Range(call.executors)}

\* stored [A, B], new list [B, C]: the stored set is {B, C}
C8_Witness ==
    /\ call # NoCycle
    /\ call.op = "UpdateTaskExecutors"
    /\ call.err = "none"
    /\ call.before = {1, 2}
    /\ call.executors = <<"B", "C">>
    /\ StoredExecutors(task_executors, call.taskID) = {2, 3}

\* C9 - Reconcile decision for persons: for every employee reached, Skip iff
\* a row with its ID is stored and equals it in every field, UpdateEmployee
\* iff a row is stored and differs, SaveEmployee iff no row is stored.
C9_ReconcileDecision ==
    lastStaff # NoCycle =>
        \A i \in 1..Len(lastStaff.decisions) :
            LET dec == lastStaff.decisions[i] IN
            /\ dec.action = "skip" <=> (dec.existing # NoRow /\ dec.existing = dec.e)
            /\ dec.action = "update" <=> (dec.existing # NoRow /\ dec.existing # dec.e)
            /\ dec.action = "save" <=> dec.existing = NoRow

\* C10 - Single flight: at most one processDate call and at most one
\* ProcessEmployee call is in flight at any moment.
C10_SingleFlight == tInFlight <= 1 /\ sInFlight <= 1

\* both cycles are in flight and a tick of the task ticker has elapsed
\* during the maintenance cycle
C10_Witness ==
    tInFlight = 1 /\ sInFlight = 1 /\ tpc = "mt_cycle" /\ ttick = 1 /\ spc = "mt_cycle"

\* C11 - No shared mutable state: the goroutine of the employee pipeline and
\* the goroutine of the task pipeline do not both assign one variable of the
\* process (the tables, reached through the connection pool, apart): main's
\* err is never assigned by both.
C11_NoSharedMutableState == stored # {"task", "staff"}

\* C12 - Task type get-or-create under a race: when concurrent
\* GetOrCreateTaskTypeID calls with the same name, not stored before, have
\* returned and no statement of theirs failed at the server, none returned
\* an error, all returned the same identifier, the one of the single
\* task_types row with that name.
C12_GetOrCreateRace ==
    \A c1 \in Callers : \A c2 \in Callers :
        (/\ c1 # c2
         /\ race[c1].name = race[c2].name
         /\ race[c1].pc = "done" /\ race[c2].pc = "done"
         /\ race[c1].err # "db" /\ race[c2].err # "db")
            => /\ race[c1].err = "none" /\ race[c2].err = "none"
               /\ race[c1].id = race[c2].id
               /\ Cardinality({i \in 1..Len(task_types) : task_types[i] = race[c1].name}) = 1
               /\ task_types[race[c1].id] = race[c1].name

\* two callers missed the name in their first SELECT, both ran the INSERT and
\* both returned
C12_Witness ==
    /\ race # <<>>
    /\ race[1].name = race[2].name
    /\ race[1].pc = "done" /\ race[2].pc = "done"
    /\ race[1].inserted /\ race[2].inserted
    /\ race[1].err = "none" /\ race[2].err = "none"

\* C13 - Login retry bound: a RetryLogin call makes at most 3 Login calls,
\* one after the other; it returns nil right after the first Login call that
\* returned nil, without a further call, and it returns an error if and only
\* if 3 Login calls in a row failed.
C13_LoginRetryBound ==
    lastLogin # NoCycle =>
        /\ Len(lastLogin.calls) <= 3
        /\ IsPrefix(lastLogin.calls, lastLogin.outcomes)
        /\ lastLogin.ret = "nil" =>
              /\ lastLogin.calls # <<>>
              /\ \A i \in 1..Len(lastLogin.calls) :
                    lastLogin.calls[i] = "nil" <=> i = Len(lastLogin.calls)
        /\ lastLogin.ret # "nil" <=>
              /\ Len(lastLogin.calls) = 3
              /\ \A i \in 1..3 : lastLogin.calls[i] # "nil"

\* the second Login call succeeded: two calls, nil returned
C13_Witness ==
    /\ lastLogin # NoCycle
    /\ lastLogin.calls = <<"ErrLogin", "nil">>
    /\ lastLogin.ret = "nil"
    /\ tpc = "types"

\* C14 - Exhaustion error wraps the cause: when every Login call of a
\* RetryLogin call failed, the error returned wraps the error of the last
\* Login call.
C14_ExhaustionWrapsCause ==
    (lastLogin # NoCycle /\ lastLogin.ret # "nil")
        => lastLogin.wraps = lastLogin.calls[Len(lastLogin.calls)]

\* C15 - Authentication exhaustion is fatal for the pipeline: once Start of
\* the task service has returned the error of an exhausted RetryLogin, the
\* pipeline stays where it is: no task-type fetch, no cycle, no statement on
\* its tables, no cursor write and no login attempt follow, whatever the
\* employee pipeline does meanwhile.
C15_AuthExhaustionFatal ==
    [][/\ (tret'.cause = "login" => tret'.err /\ tpc' = "failed")
       /\ (tret.cause = "login" =>
              /\ tpc' = tpc /\ tret' = tret
              /\ tInFlight' = tInFlight /\ lastCycle' = lastCycle
              /\ lastLogin' = lastLogin /\ session' = session
              /\ status' = status /\ task_types' = task_types
              /\ tasks' = tasks /\ task_executors' = task_executors)]_vars

\* the task service has failed in its login, the employee service is in a
\* maintenance cycle
C15_Witness ==
    /\ tret = ReturnedError("login")
    /\ lastLogin # NoCycle /\ Len(lastLogin.calls) = 3
    /\ spc = "mt_cycle" /\ sInFlight = 1

\* C16 - Re-authentication on rejection: after a fetch of the task pipeline
\* was refused because its session is no longer valid, the pipeline logs in
\* again before its next fetch: no processDate call is in flight while the
\* refusal has not been followed by a login.
C16_ReauthOnRejection == tInFlight > 0 => session # "rejected"

\* C17 - Cancellation during catch-up: when catchUpToNow sees the
\* cancellation at the head of an iteration it runs no further cycle, and
\* what Start then returns is not an error.
C17_CatchUpCancelled ==
    tret.cause = "cancelled" => (~tret.err /\ tInFlight = 0)

\* C18 - Cancellation during maintenance: when the signal has been raised
\* and a pipeline is in its maintenance loop (waiting in the select or in a
\* cycle, the last cycle failed or not), its Start eventually returns, and
\* returns nil.
C18_MaintenanceCancelled ==
    /\ (cancelled /\ tpc \in {"maint", "mt_cycle"}) ~> (tret = ReturnedNil)
    /\ (cancelled /\ spc \in {"maint", "mt_cycle"}) ~> (sret = ReturnedNil)

\* the task service returned nil after the signal, its last cycle having
\* failed
C18_Witness ==
    /\ cancelled
    /\ tret = ReturnedNil
    /\ lastCycle # NoCycle /\ lastCycle.phase = "mt_cycle" /\ lastCycle.err # "none"

\* C19 - Cancellation is observed at every suspension point: once the signal
\* has been raised the task pipeline starts no RetryLogin attempt and no
\* processDate cycle.
C19_NoNewWorkAfterCancel ==
    [][cancelled =>
          /\ tInFlight' <= tInFlight
          /\ (lastLogin = NoCycle => lastLogin' = NoCycle)]_vars

\* C20 - Maintenance tick: a tick taken by the maintenance select starts
\* exactly one processDate call, and its date is the current UTC day, the day
\* catchUpToNow compares the cursor against.
C20_MaintenanceDate ==
    [][(tpc = "maint" /\ tpc' = "mt_cycle")
          => (tInFlight' = tInFlight + 1 /\ tdate' = today)]_vars

\* C21 - Ticker stopped during a cycle: while a maintenance cycle of a
\* pipeline is in flight its ticker delivers no tick: none is buffered in the
\* ticker's channel when the cycle returns, so the next cycle waits for a
\* full interval.
C21_TickerStoppedDuringCycle ==
    /\ tpc = "mt_cycle" => ttick = 0
    /\ spc = "mt_cycle" => stick = 0

\* identifiers of the records of a page or of a response
IDsOf(records) == {records[i].ID : i \in 1..Len(records)}

\* C22 - No deletion: no step removes a stored person or a stored task, and
\* a cycle that returns leaves every stored task (its row and its executors)
\* and every stored person whose identifier is not among the records of the
\* cycle as it was.
C22_NoDeletion ==
    [][/\ \A id \in TaskIDs : tasks[id] # NoRow => tasks'[id] # NoRow
       /\ \A id \in EmpIDs : employees[id] # NoRow => employees'[id] # NoRow
       /\ (tpc \in {"cu_cycle", "mt_cycle"} /\ tpc' \in {"catchup", "maint", "failed"}) =>
             \A id \in TaskIDs \ IDsOf(lastCycle'.fetch.tasks) :
                /\ tasks'[id] = tasks[id]
                /\ StoredExecutors(task_executors', id) = StoredExecutors(task_executors, id)
       /\ (spc \in {"init_cycle", "mt_cycle"} /\ spc' \in {"maint", "failed"}) =>
             \A id \in EmpIDs \ IDsOf(lastStaff'.resp.Employees) :
                employees'[id] = employees[id]]_vars

\* a cycle over an empty page has left the stored task 1 alone, a cycle over
\* person 1 has left the stored person 2 alone
C22_Witness ==
    /\ lastCycle # NoCycle /\ lastCycle.err = "none" /\ lastCycle.fetch.tasks = <<>>
    /\ tasks[1] # NoRow
    /\ lastStaff # NoCycle /\ lastStaff.err = "none" /\ Len(lastStaff.resp.Employees) = 1
    /\ employees[2] # NoRow

\* C23 - Durable fingerprint: a restart of the process keeps the fingerprint:
\* the employee service starts (and so makes its first fetch) with the
\* fingerprint that was last observed before the restart.
C23_DurableFingerprint ==
    [][spc' = "start" => lastKnownHash' = lastKnownHash]_vars

\* C24 - One cursor per entity type: whatever number of cursor saves have
\* succeeded, the status store holds at most one record (a save replaces the
\* record instead of adding one).
C24_OneCursorRecord == Len(status) <= 1

\* C25 - Sentinel cursor on first run: when the cursor query finds the status
\* store empty, GetLastDate gives the sentinel date without an error and the
\* catch-up cycle that follows is for the sentinel date; when the query fails
\* in any other way, catchUpToNow returns the error and runs no cycle.
C25_SentinelCursor ==
    /\ cu.read = "empty" =>
          /\ tret # ReturnedError("cursor")
          /\ tpc = "cu_cycle" => tdate = SentinelDay
    /\ cu.read = "failed" =>
          /\ tpc = "failed"
          /\ tret = ReturnedError("cursor")
          /\ tInFlight = 0

\* the first catch-up cycle of a run that found the status store empty
C25_Witness ==
    /\ status = <<>>
    /\ cu.read = "empty"
    /\ tpc = "cu_cycle"
    /\ tdate = SentinelDay
    /\ today > SentinelDay

\* C26 - Persistence errors surfaced: when the lookup of the stored row of an
\* employee fails with an error other than "no rows", ProcessEmployee returns
\* an error and takes no action for that employee: no employee is handled as
\* absent, and none is inserted, after a failed lookup.
C26_LookupErrorSurfaced ==
    lastStaff # NoCycle =>
        \A i \in 1..Len(lastStaff.decisions) :
            ~lastStaff.decisions[i].lookupOK =>
                /\ lastStaff.err # "none"
                /\ lastStaff.decisions[i].action # "save"

\* C27 - Email uniqueness is not a hard invariant: a cycle whose response
\* carries two employees with different IDs and one email, and during which
\* no statement fails at the server, returns no error and reaches a decision
\* for every employee of the response.
C27_SharedEmailAccepted ==
    (/\ lastStaff # NoCycle
     /\ lastStaff.resp.ok
     /\ ~lastStaff.dbFailed
     /\ \E i, j \in 1..Len(lastStaff.resp.Employees) :
           /\ lastStaff.resp.Employees[i].ID # lastStaff.resp.Employees[j].ID
           /\ lastStaff.resp.Employees[i].Email = lastStaff.resp.Employees[j].Email
           /\ isValidEmail(lastStaff.resp.Employees[i].Email))
        => /\ lastStaff.err = "none"
           /\ Len(lastStaff.decisions) = Len(lastStaff.resp.Employees)

\* C28 - Atomic executor replacement: once an UpdateTaskExecutors(taskID, L)
\* call has returned, with an error or without, the executors stored for the
\* task are either the set stored before the call or exactly the persons
\* named in L, never a part of L and never the empty set in between.
C28_AtomicExecutorReplacement ==
    (call # NoCycle /\ call.op = "UpdateTaskExecutors")
        => \/ StoredExecutors(task_executors, call.taskID) = call.before
           \/ StoredExecutors(task_executors, call.taskID) =
                  UNION {ExecutorIDs(employees, n) : n \in Range(call.executors)}

\* C29 - Field-complete task update (as claimed): after UpsertTask(t)
\* returned nil for a task whose row was stored before the call, every column
\* of the row, the creation date included, has the value of t.
C29_EveryColumnRewritten ==
    (call # NoCycle /\ call.op = "UpsertTask" /\ call.err = "none" /\ call.stored # NoRow)
        => tasks[call.task.ID] =
               TaskRow(TypeID(task_types, call.task.Type), call.task.CreatedAt, call.task.Body)

\* C29 - Field-complete task update (amended): after UpsertTask(t) returned
\* nil for a task whose row was stored before the call, the type and every
\* column of the body have the value of t, and the creation date is the one
\* that was stored before the call.
C29_MutableColumnsRewritten ==
    (call # NoCycle /\ call.op = "UpsertTask" /\ call.err = "none" /\ call.stored # NoRow)
        => tasks[call.task.ID] =
               TaskRow(TypeID(task_types, call.task.Type), call.stored.creation_date,
                       call.task.Body)

\* an update of a stored row that differs from the task in type, creation
\* date and body
C29_Witness ==
    /\ call # NoCycle /\ call.op = "UpsertTask" /\ call.err = "none"
    /\ call.stored # NoRow
    /\ call.stored.task_type_id # TypeID(task_types, call.task.Type)
    /\ call.stored.creation_date # call.task.CreatedAt
    /\ call.stored.body # call.task.Body
    /\ tasks[call.task.ID].body = call.task.Body

\* the rows of the page whose id cell holds an integer, in page order
GoodRows(rows) == SelectSeq(rows, LAMBDA r : r.id \in {"7", "8"})

\* C30 - Row-level resilience: for a page of n rows whose id cell holds an
\* integer and k rows whose id cell is empty or not an integer, in any order,
\* parseTasksFromBody returns no error and exactly n tasks, those of the
\* good rows in page order, and records one row error for each bad row and
\* none other for it: k errors in all when the dates of the good rows parse.
C30_RowLevelResilience ==
    (call # NoCycle /\ call.op = "parseTasksFromBody" /\ call.docOK) =>
        LET good == GoodRows(call.rows)
            res == call.result
            bad == {i \in 1..Len(call.rows) : call.rows[i].id \notin {"7", "8"}}
            idErrors == {j \in 1..Len(res.parseErrors) : res.parseErrors[j][1] = "ID"}
        IN  /\ res.err = "nil"
            /\ Len(res.tasks) = Len(good)
            /\ \A j \in 1..Len(good) :
                  res.tasks[j].ID = (IF good[j].id = "7" THEN 7 ELSE 8)
            /\ Cardinality(idErrors) = Cardinality(bad)
            /\ \A i \in bad :
                  Cardinality({j \in 1..Len(res.parseErrors) : res.parseErrors[j][2] = i}) = 1
            /\ {res.parseErrors[j][2] : j \in idErrors} = bad
            /\ (\A j \in 1..Len(good) :
                   /\ good[j].createdAt = "01.06.2025"
                   /\ call.isCompleted => good[j].closedAt = "01.06.2025")
                  => Len(res.parseErrors) = Cardinality(bad)

\* a good row, a bad row, a good row: two tasks and one row error
C30_Witness ==
    /\ call # NoCycle /\ call.op = "parseTasksFromBody" /\ call.docOK
    /\ Len(call.rows) = 3
    /\ call.rows[1].id = "8" /\ call.rows[2].id = "x" /\ call.rows[3].id = "7"
    /\ Len(call.result.tasks) = 2
    /\ call.result.tasks[1].ID = 8 /\ call.result.tasks[2].ID = 7
    /\ call.result.parseErrors = << <<"ID", 2>> >>
    /\ call.result.err = "nil"

\* C31 - Customer-field parsing (as claimed): for a cell that contains a
\* hyperlink whose text splits on "-" into exactly two parts,
\* ParseCustomerInfo returns the two parts trimmed; for a cell without link
\* whose text is not the empty string it returns the trimmed text and "n/a";
\* for a cell without link and without text it returns ("", "").
C31_CustomerInfoAsClaimed ==
    (call # NoCycle /\ call.op = "ParseCustomerInfo") =>
        /\ \A i \in 1..Len(call.cell) :
              (call.cell[i].isLink /\ Len(Split(call.cell[i].text, "-")) = 2)
                 => call.result = <<TrimSpace(Split(call.cell[i].text, "-")[1]),
                                    TrimSpace(Split(call.cell[i].text, "-")[2])>>
        /\ (~HasLink(call.cell) /\ TextOf(call.cell, FALSE) # <<>>)
              => call.result = <<TrimSpace(TextOf(call.cell, FALSE)), NA>>
        /\ (~HasLink(call.cell) /\ TextOf(call.cell, FALSE) = <<>>)
              => call.result = << <<>>, <<>> >>

\* the string has no white space at either end
Trimmed(str) == str = <<>> \/ (str[1] # " " /\ str[Len(str)] # " ")

\* C31 - Customer-field parsing (amended): when the text of the hyperlinks of
\* the cell, trimmed, has exactly one "-", ParseCustomerInfo returns what
\* stands before and after it, both trimmed; for a cell without link whose
\* text is not blank it returns the trimmed text and "n/a"; for a cell whose
\* text is empty or blank it returns ("", "").
C31_CustomerInfo ==
    (call # NoCycle /\ call.op = "ParseCustomerInfo") =>
        LET linkText == TrimSpace(TextOf(call.cell, TRUE))
            cellText == TextOf(call.cell, FALSE)
            hyphens == {i \in 1..Len(linkText) : linkText[i] = "-"}
            blank == \A i \in 1..Len(cellText) : cellText[i] = " "
        IN  /\ (HasLink(call.cell) /\ Cardinality(hyphens) = 1) =>
                  \E h \in hyphens :
                     /\ call.result[1] = TrimSpace(SubSeq(linkText, 1, h - 1))
                     /\ call.result[2] = TrimSpace(SubSeq(linkText, h + 1, Len(linkText)))
                     /\ Trimmed(call.result[1]) /\ Trimmed(call.result[2])
            /\ (~HasLink(call.cell) /\ ~blank) =>
                  /\ call.result = <<TrimSpace(cellText), NA>>
                  /\ Trimmed(call.result[1])
                  /\ call.result[1] # <<>>
            /\ blank => call.result = << <<>>, <<>> >>

\* the link "a - a" gives ("a", "a")
C31_Witness ==
    /\ call # NoCycle /\ call.op = "ParseCustomerInfo"
    /\ Len(call.cell) = 1 /\ call.cell[1].isLink
    /\ call.cell[1].text = <<"a", " ", "-", "a">>
    /\ call.result = << <<"a">>, <<"a">> >>

\* the fragment up to its first italic marker
CutAtItalic(str) ==
    IF Contains(str, "<i>")
    THEN SubSeq(str, 1, (CHOOSE i \in 1..Len(str) :
                            str[i] = "<i>" /\ \A j \in 1..(i - 1) : str[j] # "<i>") - 1)
    ELSE str

\* the fragments between the line-break markers, by position of the markers
Fragments(str) ==
    LET marks == {i \in 1..Len(str) : str[i] = "<br/>"}
        starts == {1} \cup {i + 1 : i \in marks}
        EndOf(b) == IF \E i \in marks : i >= b
                    THEN (CHOOSE i \in marks : i >= b /\ \A j \in marks : j >= b => i <= j) - 1
                    ELSE Len(str)
        Nth(k) == CHOOSE b \in starts : Cardinality({c \in starts : c < b}) = k - 1
    IN  [k \in 1..Cardinality(starts) |-> SubSeq(str, Nth(k), EndOf(Nth(k)))]

\* C32 - Multi-value field parsing: ParseLinks returns, in the order of the
\* input, the fragments between the line-break markers, each cut at its first
\* italic marker and trimmed, without those that are empty then; no element
\* returned is empty, begins or ends with white space, or contains the
\* italic or the line-break marker.
C32_ParseLinks ==
    (call # NoCycle /\ call.op = "ParseLinks") =>
        LET frags == Fragments(call.rawHTML)
            cleaned == [k \in 1..Len(frags) |-> TrimSpace(CutAtItalic(frags[k]))]
        IN  /\ call.result = SelectSeq(cleaned, LAMBDA f : f # <<>>)
            /\ call.rawHTML = <<>> => call.result = <<>>
            /\ \A k \in 1..Len(call.result) :
                  /\ call.result[k] # <<>>
                  /\ call.result[k][1] # " "
                  /\ call.result[k][Len(call.result[k])] # " "
                  /\ ~Contains(call.result[k], "<i>")
                  /\ ~Contains(call.result[k], "<br/>")

\* "a<br/>a <i>" gives ["a", "a"]
C32_Witness ==
    /\ call # NoCycle /\ call.op = "ParseLinks"
    /\ call.rawHTML = <<"a", "<br/>", "a", " ", "<i>">>
    /\ call.result = << <<"a">>, <<"a">> >>

\* C33 - Fingerprint not advanced on failure: when ProcessEmployee has
\* returned an error (of the fetch, of SaveEmployee or of UpdateEmployee),
\* lastKnownHash is what it was before the cycle, so the next fetch is made
\* with the old fingerprint.
C33_FingerprintKeptOnFailure ==
    (lastStaff # NoCycle /\ lastStaff.err # "none") => lastKnownHash = lastStaff.hashBefore

\* a cycle with the fingerprint "h1" before it got "h2" with an employee and
\* failed to save it
C33_Witness ==
    /\ lastStaff # NoCycle
    /\ lastStaff.err = "save"
    /\ lastStaff.hashBefore = "h1"
    /\ lastStaff.resp.NewHash = "h2"
    /\ lastKnownHash = "h1"

\* C34 - A failed maintenance cycle does not end the pipeline: when a cycle
\* started by a maintenance tick returns, with an error or without, Start has
\* not returned and waits in the maintenance loop again; the maintenance loop
\* is left only by cancellation, Start then returning nil; a catch-up cycle
\* of the task pipeline or the initial cycle of the employee pipeline that
\* returns an error makes Start return an error.
C34_FailedMaintenanceCycleGoesOn ==
    [][/\ (tpc = "mt_cycle" /\ tpc' # "mt_cycle") =>
             tpc' = "maint" /\ tret' = Running /\ tret = Running
       /\ (spc = "mt_cycle" /\ spc' # "mt_cycle") =>
             spc' = "maint" /\ sret' = Running /\ sret = Running
       /\ (tpc = "maint" /\ tpc' \notin {"maint", "mt_cycle"}) =>
             cancelled /\ tpc' = "exited" /\ tret' = ReturnedNil
       /\ (spc = "maint" /\ spc' \notin {"maint", "mt_cycle"}) =>
             cancelled /\ spc' = "exited" /\ sret' = ReturnedNil
       /\ (tpc = "cu_cycle" /\ tpc' # "cu_cycle" /\ lastCycle'.err # "none") =>
             tpc' = "failed" /\ tret' = ReturnedError("cycle")
       /\ (spc = "init_cycle" /\ spc' # "init_cycle" /\ lastStaff'.err # "none") =>
             spc' = "failed" /\ sret' = ReturnedError("cycle")]_vars

\* a maintenance cycle of the task pipeline is in flight after the
\* maintenance cycle before it returned an error, and the employee pipeline
\* waits in its loop after a failed maintenance cycle
C34_Witness ==
    /\ tpc = "mt_cycle"
    /\ lastCycle # NoCycle /\ lastCycle.phase = "mt_cycle" /\ lastCycle.err # "none"
    /\ tret = Running
    /\ spc = "maint"
    /\ lastStaff # NoCycle /\ lastStaff.err # "none"
    /\ sret = Running

\* C35 - Cursor monotonicity: the clock never going back and the cursor at
\* the start being the sentinel or a date not later than today + 1, every
\* cursor write, of a catch-up cycle or of a maintenance cycle, before or
\* after restarts and failed cycles, stores a date greater than or equal to
\* the cursor date stored before it.
C35_CursorMonotonicity ==
    [][GetLastDate(status') >= GetLastDate(status)]_vars


StepOf(table) == IF table = "task_types" THEN 1 ELSE IF table = "tasks" THEN 2 ELSE 3

\* C37 - SaveTaskData step order: SaveTaskData writes task_types, then
\* tasks, then task_executors, never a table of an earlier step after one of
\* a later step; the error returned names the step that failed, no table of
\* a later step is written, and what the earlier steps wrote remains: after a
\* failed executor replacement the task row is stored with the values of the
\* task.
C37_StepOrder ==
    (call # NoCycle /\ call.op = "SaveTaskData") =>
        /\ call.err \in {"none", "type", "upsert", "executors"}
        /\ \A i, j \in 1..Len(call.writes) :
              i < j => StepOf(call.writes[i]) <= StepOf(call.writes[j])
        /\ call.err = "type" =>
              /\ Range(call.writes) \subseteq {"task_types"}
              /\ tasks[call.taskID] = call.stored
              /\ StoredExecutors(task_executors, call.taskID) = call.before
        /\ call.err = "upsert" =>
              /\ Range(call.writes) \subseteq {"task_types"}
              /\ call.task.Type \in Range(task_types)
              /\ tasks[call.taskID] = call.stored
              /\ StoredExecutors(task_executors, call.taskID) = call.before
        /\ call.err \in {"executors", "none"} =>
              /\ call.task.Type \in Range(task_types)
              /\ "tasks" \in Range(call.writes)
              /\ tasks[call.taskID] # NoRow
              /\ tasks[call.taskID].body = call.task.Body
              /\ tasks[call.taskID].task_type_id = TypeID(task_types, call.task.Type)
        /\ call.err = "none" => "task_executors" \in Range(call.writes)

\* the first call for a task created its type and inserted its row, and the
\* DELETE of the executor replacement failed: the type and the row are stored
C37_Witness ==
    /\ call # NoCycle
    /\ call.op = "SaveTaskData"
    /\ call.err = "executors"
    /\ call.types = <<>>
    /\ call.stored = NoRow
    /\ call.writes = <<"task_types", "tasks">>
    /\ task_types = <<call.task.Type>>
    /\ tasks[call.taskID] = TaskRow(1, call.task.CreatedAt, call.task.Body)

\* C38 - Reconciliation converges for persons: when ProcessEmployee has run
\* over a list of employees (every identifier once, as the identifier is
\* unique) and returned nil, and runs once more over the same list, no
\* statement failing, the second run chooses Skip for every employee and
\* calls neither SaveEmployee nor UpdateEmployee, also for employees whose
\* source email is empty or invalid.
C38_ReconciliationConverges ==
    (/\ call # NoCycle
     /\ call.op = "ProcessEmployee"
     /\ call.first # NoCycle
     /\ call.first.err = "none"
     /\ ~call.first.dbFailed
     /\ ~call.dbFailed
     /\ \A i, j \in 1..Len(call.resp.Employees) :
           call.resp.Employees[i].ID = call.resp.Employees[j].ID => i = j)
        => /\ call.err = "none"
           /\ \A i \in 1..Len(call.decisions) : call.decisions[i].action = "skip"
           /\ \A i \in 1..Len(call.calls) :
                 call.calls[i][1] \notin {"SaveEmployee", "UpdateEmployee"}

\* the callers that hold c.mu
InCritical == {c \in DOMAIN jarCalls : jarCalls[c].pc \in {"locked", "set", "got"}}

\* C39 - Cookie store is serialized per host: under every interleaving of
\* SetCookies and Cookies calls at most one call is between Lock and Unlock,
\* a Cookies(u) call has read exactly the list of the last SetCookies call
\* for the host of u that returned (the empty list when there was none), and
\* a SetCookies call has left the list of every other host as it was.
C39_CookieStoreSerialized ==
    /\ Cardinality(InCritical) <= 1
    /\ \A c \in DOMAIN jarCalls :
          /\ jarCalls[c].pc = "got" =>
                jarCalls[c].ret = cookieJar.latest[jarCalls[c].host]
          /\ jarCalls[c].pc = "set" =>
                /\ cookieJar.jar[jarCalls[c].host] = jarCalls[c].cookies
                /\ \A h \in Hosts \ {jarCalls[c].host} :
                      cookieJar.jar[h] = jarCalls[c].before[h]

\* a Cookies call for h1 has read the list of the last SetCookies for h1
\* while another caller waits for the mutex with a SetCookies for h1, and
\* h2 holds another list
C39_Witness ==
    /\ jarCalls # <<>>
    /\ \E c, d \in DOMAIN jarCalls :
          /\ c # d
          /\ jarCalls[c].pc = "got"
          /\ jarCalls[c].host = "h1"
          /\ jarCalls[c].ret = <<"sid">>
          /\ jarCalls[d].pc = "lock"
          /\ jarCalls[d].op = "SetCookies"
          /\ jarCalls[d].host = "h1"
    /\ cookieJar.latest["h2"] = <<"lang">>

\* C40 - Session cookies persist: when the jar holds the session cookie for
\* a host and a later SetCookies call for the same host carries cookies, none
\* of them the session cookie, the jar still holds the session cookie for
\* the host after the call, so Cookies goes on returning it.
C40_SessionCookiePersists ==
    \A c \in DOMAIN jarCalls :
        (/\ jarCalls[c].pc = "set"
         /\ "sid" \in Range(jarCalls[c].before[jarCalls[c].host])
         /\ jarCalls[c].cookies # <<>>
         /\ "sid" \notin Range(jarCalls[c].cookies))
            => "sid" \in Range(cookieJar.jar[jarCalls[c].host])

====
